---- MODULE Spec2Model ----
(***************************************************************************)
(* FIFO lot-accounting engine of InvestmentTracker: the merge loop of      *)
(* apply_trades_fifo (src/src/engine_fifo.py), apply_corporate_action and   *)
(* SnapshotCollector (src/src/snapshots.py).                                *)
(*                                                                          *)
(* Prices are Python floats (IEEE-754 binary64).  They are modelled bit for *)
(* bit: a float is a sign, a 53-bit significand held in 15-bit limbs (TLC's *)
(* integers are 32 bits wide) and a binary exponent, and every operation    *)
(* rounds to nearest, ties to even, as the hardware does.                   *)
(***************************************************************************)
EXTENDS Integers, Sequences, FiniteSets, TLC

(***************************************************************************)
(* Natural numbers of any size: little-endian sequences of limbs in        *)
(* 0..LimbBase-1 without leading zero limbs; <<>> is zero.                  *)
(***************************************************************************)
LimbBits == 15

RECURSIVE Pow2(_)
Pow2(n) == IF n = 0 THEN 1 ELSE 2 * Pow2(n - 1)

LimbBase == Pow2(LimbBits)

RECURSIVE BNTrim(_)
BNTrim(a) ==
    IF a = <<>> THEN <<>>
    ELSE IF a[Len(a)] = 0 THEN BNTrim(SubSeq(a, 1, Len(a) - 1))
    ELSE a

RECURSIVE BNFromNat(_)
BNFromNat(n) ==
    IF n = 0 THEN <<>> ELSE <<n % LimbBase>> \o BNFromNat(n \div LimbBase)

\* a * k + carry, for 0 <= k < LimbBase
RECURSIVE BNMulSmallC(_, _, _)
BNMulSmallC(a, k, carry) ==
    IF a = <<>> THEN BNFromNat(carry)
    ELSE LET t == a[1] * k + carry
         IN  <<t % LimbBase>> \o BNMulSmallC(Tail(a), k, t \div LimbBase)

BNMulSmall(a, k) == BNTrim(BNMulSmallC(a, k, 0))

\* quotient and remainder of a by k, for 0 < k < LimbBase; limbs are taken
\* from the most significant one down
RECURSIVE BNDivSmallR(_, _, _, _)
BNDivSmallR(a, k, i, rem) ==
    IF i = 0 THEN [q |-> <<>>, r |-> rem]
    ELSE LET t    == rem * LimbBase + a[i]
             rest == BNDivSmallR(a, k, i - 1, t % k)
         IN  [q |-> rest.q \o <<t \div k>>, r |-> rest.r]

BNDivSmall(a, k) ==
    LET d == BNDivSmallR(a, k, Len(a), 0)
    IN  [q |-> BNTrim(d.q), r |-> d.r]

Limb(a, i) == IF i <= Len(a) THEN a[i] ELSE 0

RECURSIVE BNAddC(_, _, _, _)
BNAddC(a, b, i, carry) ==
    IF i > Len(a) /\ i > Len(b) THEN BNFromNat(carry)
    ELSE LET t == Limb(a, i) + Limb(b, i) + carry
         IN  <<t % LimbBase>> \o BNAddC(a, b, i + 1, t \div LimbBase)

BNAdd(a, b) == BNTrim(BNAddC(a, b, 1, 0))

\* -1, 0, 1 as a < b, a = b, a > b
RECURSIVE BNCmpFrom(_, _, _)
BNCmpFrom(a, b, i) ==
    IF i = 0 THEN 0
    ELSE IF a[i] < b[i] THEN -1
    ELSE IF a[i] > b[i] THEN 1
    ELSE BNCmpFrom(a, b, i - 1)

BNCmp(a, b) ==
    IF Len(a) < Len(b) THEN -1
    ELSE IF Len(a) > Len(b) THEN 1
    ELSE BNCmpFrom(a, b, Len(a))

\* a - b for a >= b
RECURSIVE BNSubB(_, _, _, _)
BNSubB(a, b, i, borrow) ==
    IF i > Len(a) THEN <<>>
    ELSE LET t == a[i] - Limb(b, i) - borrow
         IN  IF t < 0 THEN <<t + LimbBase>> \o BNSubB(a, b, i + 1, 1)
             ELSE <<t>> \o BNSubB(a, b, i + 1, 0)

BNSub(a, b) == BNTrim(BNSubB(a, b, 1, 0))

RECURSIVE BitLenNat(_)
BitLenNat(n) == IF n = 0 THEN 0 ELSE 1 + BitLenNat(n \div 2)

BNBitLen(a) ==
    IF a = <<>> THEN 0 ELSE (Len(a) - 1) * LimbBits + BitLenNat(a[Len(a)])

Zeros(n) == [i \in 1..n |-> 0]

\* a * 2^n
BNShl(a, n) ==
    IF a = <<>> THEN <<>>
    ELSE BNMulSmall(Zeros(n \div LimbBits) \o a, Pow2(n % LimbBits))

\* floor(a / 2^n)
BNShr(a, n) ==
    LET w == n \div LimbBits
    IN  IF w >= Len(a) THEN <<>>
        ELSE BNDivSmall(SubSeq(a, w + 1, Len(a)), Pow2(n % LimbBits)).q

\* a mod 2^n
BNLowBits(a, n) == BNSub(a, BNShl(BNShr(a, n), n))

BNIsOdd(a) == a # <<>> /\ a[1] % 2 = 1

(***************************************************************************)
(* Python floats.  [neg, m, e] stands for (-1)^neg * m * 2^e with m a      *)
(* significand of exactly MantBits bits, or m = <<>> for zero.  The values  *)
(* the model reaches stay far inside binary64's exponent range, so          *)
(* subnormals, infinities and NaN do not arise.                             *)
(***************************************************************************)
MantBits == 53

FZero(neg) == [neg |-> neg, m |-> <<>>, e |-> 0]

FIsZero(x) == x.m = <<>>

\* The float nearest to (m + d) * 2^e, where 0 < d < 1 if sticky and d = 0
\* otherwise; ties go to the even significand.  With sticky set, m has more
\* than MantBits + 1 bits.
FRound(neg, m, e, sticky) ==
    LET L == BNBitLen(m)
    IN  IF m = <<>> THEN FZero(neg)
        ELSE IF L <= MantBits
        THEN [neg |-> neg, m |-> BNShl(m, MantBits - L), e |-> e - (MantBits - L)]
        ELSE LET sh   == L - MantBits
                 q    == BNShr(m, sh)
                 c    == BNCmp(BNLowBits(m, sh), BNShl(<<1>>, sh - 1))
                 up   == c > 0 \/ (c = 0 /\ (sticky \/ BNIsOdd(q)))
                 q2   == IF up THEN BNAdd(q, <<1>>) ELSE q
             IN  IF BNBitLen(q2) > MantBits
                 THEN [neg |-> neg, m |-> BNShr(q2, 1), e |-> e + sh + 1]
                 ELSE [neg |-> neg, m |-> q2, e |-> e + sh]

\* float(n) for an integer n
FFromInt(n) ==
    IF n < 0 THEN FRound(TRUE, BNFromNat(-n), 0, FALSE)
    ELSE FRound(FALSE, BNFromNat(n), 0, FALSE)

\* x / k for a float x and an integer 0 < k < LimbBase: the quotient is
\* computed to MantBits + 2 bits or more, the remainder is the sticky bit
FDivInt(x, k) ==
    IF FIsZero(x) THEN x
    ELSE LET d == BNDivSmall(BNShl(x.m, LimbBits + 2), k)
         IN  FRound(x.neg, d.q, x.e - (LimbBits + 2), d.r # 0)

\* The float a decimal literal num/den parses to (float("0.9") is 9/10
\* correctly rounded)
FParse(num, den) == FDivInt(FFromInt(num), den)

\* q * x for an integer q, |q| < LimbBase, and a float x
FMulInt(q, x) ==
    LET aq  == IF q < 0 THEN -q ELSE q
        neg == (q < 0) # x.neg
    IN  IF aq = 0 \/ FIsZero(x) THEN FZero(neg)
        ELSE FRound(neg, BNMulSmall(x.m, aq), x.e, FALSE)

FNeg(x) == [x EXCEPT !.neg = ~x.neg]

\* a + b
FAdd(a, b) ==
    IF FIsZero(a) /\ FIsZero(b) THEN FZero(a.neg /\ b.neg)
    ELSE IF FIsZero(b) THEN a
    ELSE IF FIsZero(a) THEN b
    ELSE LET e0 == IF a.e < b.e THEN a.e ELSE b.e
             A  == BNShl(a.m, a.e - e0)
             B  == BNShl(b.m, b.e - e0)
             c  == BNCmp(A, B)
         IN  IF a.neg = b.neg THEN FRound(a.neg, BNAdd(A, B), e0, FALSE)
             ELSE IF c = 0 THEN FZero(FALSE)
             ELSE IF c > 0 THEN FRound(a.neg, BNSub(A, B), e0, FALSE)
             ELSE FRound(b.neg, BNSub(B, A), e0, FALSE)

\* a - b
FSub(a, b) == FAdd(a, FNeg(b))

\* round(x, 0): the nearest integer as a float, ties to even
FRound0(x) ==
    IF FIsZero(x) \/ x.e >= 0 THEN x
    ELSE LET sh == -x.e
             q  == BNShr(x.m, sh)
             c  == BNCmp(BNLowBits(x.m, sh), BNShl(<<1>>, sh - 1))
             up == c > 0 \/ (c = 0 /\ BNIsOdd(q))
             q2 == IF up THEN BNAdd(q, <<1>>) ELSE q
         IN  FRound(x.neg, q2, 0, FALSE)

\* a == b on floats (-0.0 == 0.0)
FEq(a, b) == (FIsZero(a) /\ FIsZero(b)) \/ a = b

(***************************************************************************)
(* Timestamps.  A pd.Timestamp is a day and a time of day: day * TicksPerDay*)
(* + tick.  Timestamp.normalize() drops the time of day.                    *)
(***************************************************************************)
TicksPerDay == 2

Ts(day, tick) == day * TicksPerDay + tick

normalize(ts) == ts - (ts % TicksPerDay)

\* Python's None where a timestamp is expected
None == -1

Symbols == {"A", "B"}

\* str.strip() and str.upper() on the strings of the model
strip(s) ==
    CASE s = " A" -> "A"
      [] s = "A " -> "A"
      [] OTHER -> s

upper(s) ==
    CASE s = "split" -> "SPLIT"
      [] s = "Split" -> "SPLIT"
      [] s = "merge" -> "MERGE"
      [] s = "buy" -> "BUY"
      [] s = "sell" -> "SELL"
      [] OTHER -> s

Min(a, b) == IF a <= b THEN a ELSE b

\* class Lot
Lot(qty, price, date) == [qty |-> qty, price |-> price, date |-> date]

\* The exceptions the engine raises: all are ValueError, told apart by message
ErrInvalidRatio == [type |-> "ValueError", msg |-> "Invalid SPLIT ratio"]

ErrNotMultiple == [type |-> "ValueError", msg |-> "SPLIT ratio must be integer multiple"]

ErrUnsupportedAction == [type |-> "ValueError", msg |-> "Unsupported action_type"]

ErrNotEnough == [type |-> "ValueError", msg |-> "Not enough inventory to sell"]

ErrUnknownSide == [type |-> "ValueError", msg |-> "Unknown trade side"]

NoErr == [type |-> "", msg |-> ""]

VARIABLES
    inventories,            \* dict symbol -> deque of Lot (shared with the caller)
    trade_q,                \* deque of trade rows, sorted by transaction_date
    action_q,               \* deque of action rows, sorted by action_date
    realized_pnl_records,   \* list of disposal records (local to apply_trades_fifo)
    sc_dates,               \* SnapshotCollector._dates
    sc_i,                   \* SnapshotCollector._i
    snapshots,              \* SnapshotCollector.snapshots: date -> (symbol -> qty)
    pc,                     \* "loop", "dispatch", "sell", "returned", "raised"
    tr,                     \* the trade being applied
    remaining_qty,          \* of the SELL being matched
    err,                    \* the exception raised, NoErr if none
    ret,                    \* what apply_trades_fifo returned, <<>> before it returns
    log,                    \* history: every event taken so far, with the state it was taken in
    div_df_year,            \* main: the year's dividend records
    dividend_ledger_df,     \* what compute_dividend_ledger returned, <<>> before it returns
    files,                  \* the output files written so far: name -> content
    first_run,              \* history: <<outcome>> of an earlier run on the same inputs, else <<>>
    trades_df,              \* the trade rows as loaded, before they were prepared
    actions_df              \* the corporate-action rows as loaded

vars == <<inventories, trade_q, action_q, realized_pnl_records, sc_dates, sc_i,
          snapshots, pc, tr, remaining_qty, err, ret, log, div_df_year,
          dividend_ledger_df, files, first_run, trades_df, actions_df>>

\* The state of main outside apply_trades_fifo
MainVars == <<div_df_year, dividend_ledger_df, files, first_run, trades_df, actions_df>>

NoTrade == [transaction_date |-> None, stock_symbol |-> "", side |-> "", qty |-> 0,
            price |-> FZero(FALSE)]

(***************************************************************************)
(* dict operations                                                          *)
(***************************************************************************)
\* d[k] = v
DictSet(d, k, v) == [x \in DOMAIN d \cup {k} |-> IF x = k THEN v ELSE d[x]]

\* d.setdefault(k, deque())
setdefault(d, k) == IF k \in DOMAIN d THEN d ELSE DictSet(d, k, <<>>)

\* d.get(k, default)
DictGet(d, k, default) == IF k \in DOMAIN d THEN d[k] ELSE default

EmptyDict == [x \in {} |-> 0]

(***************************************************************************)
(* SnapshotCollector                                                        *)
(***************************************************************************)
RECURSIVE SumQty(_)
SumQty(lots) == IF lots = <<>> THEN 0 ELSE lots[1].qty + SumQty(Tail(lots))

\* every symbol kept, a zero total included
snapshot_inventory_with_zero(inv) == [s \in DOMAIN inv |-> SumQty(inv[s])]

\* SnapshotCollector._snapshot_inventory
snapshot_inventory(inv) ==
    [s \in {x \in DOMAIN inv : SumQty(inv[x]) # 0} |-> SumQty(inv[s])]

\* the test with > : a snapshot date equal to the cutoff counts as crossed
NotCrossedStrict(cutoff, snap_date) == cutoff # None /\ snap_date > cutoff

\* "not crossed yet"
NotCrossed(cutoff, snap_date) == cutoff # None /\ snap_date >= cutoff

\* the cutoff a day late: a date is captured before the events of that date
Cutoff_day_after(next_event_date) ==
    IF next_event_date = None THEN None ELSE normalize(next_event_date) + TicksPerDay

\* the cutoff consume_until compares the snapshot dates with
Cutoff(next_event_date) ==
    IF next_event_date = None THEN None ELSE normalize(next_event_date)

\* SnapshotCollector.consume_until: the collector's (_i, snapshots) after the call
RECURSIVE consume_until(_, _, _, _, _)
consume_until(next_event_date, inv, dts, i, snaps) ==
    LET cutoff == Cutoff(next_event_date)
    IN  IF ~(i < Len(dts)) THEN [i |-> i, snapshots |-> snaps]
        ELSE LET snap_date == dts[i + 1]
             IN  IF NotCrossed(cutoff, snap_date)
                 THEN [i |-> i, snapshots |-> snaps]
                 ELSE consume_until(next_event_date, inv, dts, i + 1,
                                    DictSet(snaps, snap_date, snapshot_inventory(inv)))

\* a finalize that captures nothing
finalize_nothing(inv, dts, i, snaps) == [i |-> i, snapshots |-> snaps]

\* SnapshotCollector.finalize
finalize(inv, dts, i, snaps) == consume_until(None, inv, dts, i, snaps)

\* the dates kept in the order given
unsorted(s) == s

RECURSIVE insort(_, _)
insort(x, s) ==
    IF s = <<>> THEN <<x>>
    ELSE IF x < Head(s) THEN <<x>> \o s
    ELSE <<Head(s)>> \o insort(x, Tail(s))

\* sorted(): ascending, equal dates kept
RECURSIVE sorted(_)
sorted(s) == IF s = <<>> THEN <<>> ELSE insort(s[Len(s)], sorted(SubSeq(s, 1, Len(s) - 1)))

\* SnapshotCollector.__init__
SnapshotCollector(snapshot_dates) ==
    [dates     |-> sorted([j \in DOMAIN snapshot_dates |-> normalize(snapshot_dates[j])]),
     i         |-> 0,
     snapshots |-> EmptyDict]

(***************************************************************************)
(* dividends.py                                                             *)
(***************************************************************************)
Dividend(symbol, ex_dividend_date, dividends) ==
    [symbol |-> symbol, ex_dividend_date |-> ex_dividend_date, dividends |-> dividends]

\* pd.Timedelta(days=1)
OneDay == TicksPerDay

\* sorted(unique values)
RECURSIVE SortedUnique(_)
SortedUnique(S) ==
    IF S = {} THEN <<>>
    ELSE LET x == CHOOSE y \in S : \A z \in S : y <= z
         IN  <<x>> \o SortedUnique(S \ {x})

\* build_needed_snapshot_map
build_needed_snapshot_map(div_df) ==
    IF div_df = <<>> THEN <<>>
    ELSE SortedUnique({normalize(normalize(div_df[j].ex_dividend_date) - OneDay) :
                          j \in DOMAIN div_df})

\* the snapshot of the ex-dividend date itself
snap_date_same_day(exd) == normalize(exd)

\* snap_date = (exd - pd.Timedelta(days=1)).normalize()
snap_date_of(exd) == normalize(exd - OneDay)

\* one entry for the first record only
first_record_only(div_df) == IF div_df = <<>> THEN {} ELSE {1}

\* for r in df.itertuples(index=False)
itertuples(div_df) == DOMAIN div_df

\* compute_dividend_ledger: one record of the loop body
LedgerEntry(r, snaps) ==
    LET symbol       == strip(r.symbol)
        exd          == normalize(r.ex_dividend_date)
        snap_date    == snap_date_of(exd)
        per_share    == r.dividends
        snap         == DictGet(snaps, snap_date, EmptyDict)
        eligible_qty == DictGet(snap, symbol, 0)
        amount       == FMulInt(eligible_qty, per_share)
    IN  [symbol |-> symbol, ex_dividend_date |-> exd, snapshot_date |-> snap_date,
         eligible_qty |-> eligible_qty, dividends_per_share |-> per_share,
         dividend_amount |-> amount]

\* compute_dividend_ledger
compute_dividend_ledger(div_df, snaps) ==
    IF div_df = <<>> THEN <<>>
    ELSE [j \in itertuples(div_df) |-> LedgerEntry(div_df[j], snaps)]

(***************************************************************************)
(* apply_corporate_action: the inventories after the call and the exception *)
(* it raised, if any                                                        *)
(***************************************************************************)
\* the quantity multiplied, the price left as it was
SplitLotQtyOnly(lot, k) == [lot EXCEPT !.qty = lot.qty * k]

SplitLot(lot, k) == [lot EXCEPT !.qty = lot.qty * k, !.price = FDivInt(lot.price, k)]

\* the loop stopped after the first lot
SplitQueueHeadOnly(inv, k) ==
    [j \in 1..Len(inv) |-> IF j = 1 THEN SplitLot(inv[j], k) ELSE inv[j]]

SplitQueue(inv, k) == [j \in 1..Len(inv) |-> SplitLot(inv[j], k)]

\* the multiple test replaced by ratio_to >= ratio_from
apply_corporate_action_floor(action, invs) ==
    LET symbol      == strip(action.symbol)
        action_type == upper(strip(action.action_type))
        invs1       == setdefault(invs, symbol)
        rf          == action.ratio_from
        rt          == action.ratio_to
    IN  IF action_type = "SPLIT"
        THEN IF rf <= 0 \/ rt <= 0
             THEN [inventories |-> invs1, err |-> ErrInvalidRatio]
             ELSE IF rt < rf
             THEN [inventories |-> invs1, err |-> ErrNotMultiple]
             ELSE [inventories |-> DictSet(invs1, symbol,
                                           SplitQueue(invs1[symbol], rt \div rf)),
                   err |-> NoErr]
        ELSE [inventories |-> invs1, err |-> ErrUnsupportedAction]

\* an unsupported type reported with the message of an invalid ratio
apply_corporate_action_one_error(action, invs) ==
    LET symbol      == strip(action.symbol)
        action_type == upper(strip(action.action_type))
        invs1       == setdefault(invs, symbol)
        rf          == action.ratio_from
        rt          == action.ratio_to
    IN  IF action_type = "SPLIT"
        THEN IF rf <= 0 \/ rt <= 0
             THEN [inventories |-> invs1, err |-> ErrInvalidRatio]
             ELSE IF rt % rf # 0
             THEN [inventories |-> invs1, err |-> ErrNotMultiple]
             ELSE [inventories |-> DictSet(invs1, symbol,
                                           SplitQueue(invs1[symbol], rt \div rf)),
                   err |-> NoErr]
        ELSE [inventories |-> invs1, err |-> ErrInvalidRatio]

\* a SPLIT applied to the queue of every symbol
apply_corporate_action_all(action, invs) ==
    LET symbol      == strip(action.symbol)
        action_type == upper(strip(action.action_type))
        invs1       == setdefault(invs, symbol)
        rf          == action.ratio_from
        rt          == action.ratio_to
    IN  IF action_type = "SPLIT"
        THEN IF rf <= 0 \/ rt <= 0
             THEN [inventories |-> invs1, err |-> ErrInvalidRatio]
             ELSE IF rt % rf # 0
             THEN [inventories |-> invs1, err |-> ErrNotMultiple]
             ELSE [inventories |-> [s \in DOMAIN invs1 |-> SplitQueue(invs1[s], rt \div rf)],
                   err |-> NoErr]
        ELSE [inventories |-> invs1, err |-> ErrUnsupportedAction]

apply_corporate_action(action, invs) ==
    LET symbol      == strip(action.symbol)
        action_type == upper(strip(action.action_type))
        invs1       == setdefault(invs, symbol)
        rf          == action.ratio_from
        rt          == action.ratio_to
    IN  IF action_type = "SPLIT"
        THEN IF rf <= 0 \/ rt <= 0
             THEN [inventories |-> invs1, err |-> ErrInvalidRatio]
             ELSE IF rt % rf # 0
             THEN [inventories |-> invs1, err |-> ErrNotMultiple]
             ELSE [inventories |-> DictSet(invs1, symbol,
                                           SplitQueue(invs1[symbol], rt \div rf)),
                   err |-> NoErr]
        ELSE [inventories |-> invs1, err |-> ErrUnsupportedAction]

(***************************************************************************)
(* apply_trades_fifo: the merge loop                                        *)
(***************************************************************************)
\* the remainder put back also when nothing is left of the lot
KeepRemainderOrZero(remaining_lot_qty) == remaining_lot_qty >= 0

\* "if remaining_lot_qty > 0"
KeepRemainder(remaining_lot_qty) == remaining_lot_qty > 0

\* the loop entered only for two shares or more
WhileRemainingAboveOne(r) == r > 1

\* "while remaining_qty > 0"
WhileRemaining(r) == r > 0

\* the whole lot taken whatever is left to sell
matched_qty_whole_lot(lot_qty, remaining) == lot_qty

\* "sell_qty = min(lot.qty, remaining_qty)"
matched_qty(lot_qty, remaining) == Min(lot_qty, remaining)

\* deque.pop(): the element taken from the right end
pop_right(q) == [lot |-> q[Len(q)], rest |-> SubSeq(q, 1, Len(q) - 1)]

\* deque.append(): the lot put at the right end
append_right(q, lot) == q \o <<lot>>

\* the lot bought put at the head of the queue
append_at_head(q, lot) == <<lot>> \o q

\* deque.append(): the lot bought put at the tail
append(q, lot) == Append(q, lot)

\* deque.appendleft(): the lot put at the left end
appendleft(q, lot) == <<lot>> \o q

\* the head read and left in the deque
popleft_peek(q) == [lot |-> Head(q), rest |-> q]

\* the right end taken in a run that follows another
popleft_second_run(q) ==
    IF first_run = <<>> THEN [lot |-> Head(q), rest |-> Tail(q)]
    ELSE [lot |-> q[Len(q)], rest |-> SubSeq(q, 1, Len(q) - 1)]

\* deque.popleft(): the element taken and the deque left
popleft(q) == [lot |-> Head(q), rest |-> Tail(q)]

\* the later of the two head dates instead of the earlier
peek_later_event_date ==
    LET td == IF trade_q # <<>> THEN normalize(trade_q[1].transaction_date) ELSE None
        ad == IF action_q # <<>> THEN normalize(action_q[1].action_date) ELSE None
    IN  IF td = None THEN ad
        ELSE IF ad = None THEN td
        ELSE IF td >= ad THEN td ELSE ad

\* _peek_next_event_date
peek_next_event_date ==
    LET td == IF trade_q # <<>> THEN normalize(trade_q[1].transaction_date) ELSE None
        ad == IF action_q # <<>> THEN normalize(action_q[1].action_date) ELSE None
    IN  IF td = None THEN ad
        ELSE IF ad = None THEN td
        ELSE IF td <= ad THEN td ELSE ad

\* Head of the loop: the while condition holds, the collector catches up with
\* the next event's date
LoopTop ==
    /\ pc = "loop"
    /\ trade_q # <<>> \/ action_q # <<>>
    /\ LET c == consume_until(peek_next_event_date, inventories, sc_dates, sc_i, snapshots)
       IN  /\ sc_i' = c.i
           /\ snapshots' = c.snapshots
    /\ pc' = "dispatch"
    /\ UNCHANGED <<inventories, trade_q, action_q, realized_pnl_records, sc_dates,
                   tr, remaining_qty, err, ret, log>>
    /\ UNCHANGED MainVars

\* the comparison with <=: on equal dates the action runs first
ActionIsNextOrEqual ==
    LET td == IF trade_q # <<>> THEN trade_q[1].transaction_date ELSE None
        ad == IF action_q # <<>> THEN action_q[1].action_date ELSE None
    IN  ad # None /\ (td = None \/ ad <= td)

\* "action only runs if strictly earlier than next trade date"
ActionIsNext ==
    LET td == IF trade_q # <<>> THEN trade_q[1].transaction_date ELSE None
        ad == IF action_q # <<>> THEN action_q[1].action_date ELSE None
    IN  ad # None /\ (td = None \/ ad < td)

History(kind, ev) ==
    [kind |-> kind, event |-> ev, inventories |-> inventories,
     nrec |-> Len(realized_pnl_records), sc_i |-> sc_i]

DispatchAction ==
    /\ pc = "dispatch"
    /\ ActionIsNext
    /\ LET act == Head(action_q)
           r   == apply_corporate_action(act, inventories)
       IN  /\ action_q' = Tail(action_q)
           /\ inventories' = r.inventories
           /\ err' = r.err
           /\ pc' = IF r.err = NoErr THEN "loop" ELSE "raised"
           /\ log' = Append(log, History("action", act))
    /\ UNCHANGED <<trade_q, realized_pnl_records, sc_dates, sc_i, snapshots, tr,
                   remaining_qty, ret>>
    /\ UNCHANGED MainVars

DispatchTrade ==
    /\ pc = "dispatch"
    /\ ~ActionIsNext
    /\ LET t      == Head(trade_q)
           symbol == strip(t.stock_symbol)
           side   == upper(t.side)
           invs1  == setdefault(inventories, symbol)
       IN  /\ trade_q' = Tail(trade_q)
           /\ tr' = t
           /\ log' = Append(log, History("trade", t))
           /\ IF side = "BUY"
              THEN /\ inventories' = DictSet(invs1, symbol,
                          append(invs1[symbol], Lot(t.qty, t.price, t.transaction_date)))
                   /\ pc' = "loop"
                   /\ UNCHANGED <<remaining_qty, err>>
              ELSE IF side = "SELL"
              THEN /\ inventories' = invs1
                   /\ remaining_qty' = t.qty
                   /\ pc' = IF WhileRemaining(t.qty) THEN "sell" ELSE "loop"
                   /\ UNCHANGED err
              ELSE /\ inventories' = invs1
                   /\ err' = ErrUnknownSide
                   /\ pc' = "raised"
                   /\ UNCHANGED remaining_qty
    /\ UNCHANGED <<action_q, realized_pnl_records, sc_dates, sc_i, snapshots, ret>>
    /\ UNCHANGED MainVars

\* the product left as it is
realized_pnl_unrounded(sell_qty, price, lot_price) == FMulInt(sell_qty, FSub(price, lot_price))

\* realized_pnl = round(sell_qty * (price - lot_price), 0)
realized_pnl(sell_qty, price, lot_price) == FRound0(FMulInt(sell_qty, FSub(price, lot_price)))

\* a record that takes the acquisition date and cost from the SELL itself
DisposalRecordOfTrade(t, symbol, sell_qty, lot) ==
    [transaction_date |-> t.transaction_date,
     stock_symbol |-> symbol,
     sell_qty |-> sell_qty,
     sell_price |-> t.price,
     buy_date |-> t.transaction_date,
     buy_price |-> t.price,
     realized_pnl |-> realized_pnl(sell_qty, t.price, lot.price)]

\* realized_pnl_records.append({...})
DisposalRecord(t, symbol, sell_qty, lot) ==
    [transaction_date |-> t.transaction_date,
     stock_symbol |-> symbol,
     sell_qty |-> sell_qty,
     sell_price |-> t.price,
     buy_date |-> lot.date,
     buy_price |-> lot.price,
     realized_pnl |-> realized_pnl(sell_qty, t.price, lot.price)]

\* One iteration of "while remaining_qty > 0"
SellIter ==
    /\ pc = "sell"
    /\ LET symbol    == strip(tr.stock_symbol)
           inventory == inventories[symbol]
       IN  IF inventory = <<>>
           THEN /\ err' = ErrNotEnough
                /\ pc' = "raised"
                /\ UNCHANGED <<inventories, realized_pnl_records, remaining_qty>>
           ELSE LET popped   == popleft(inventory)
                    lot      == popped.lot
                    sell_qty == matched_qty(lot.qty, remaining_qty)
                    remaining_lot_qty == lot.qty - sell_qty
                    rest     == IF KeepRemainder(remaining_lot_qty)
                                THEN appendleft(popped.rest,
                                                Lot(remaining_lot_qty, lot.price, lot.date))
                                ELSE popped.rest
                IN  /\ remaining_qty' = remaining_qty - sell_qty
                    /\ inventories' = DictSet(inventories, symbol, rest)
                    /\ realized_pnl_records' = Append(realized_pnl_records,
                          DisposalRecord(tr, symbol, sell_qty, lot))
                    /\ pc' = IF WhileRemaining(remaining_qty - sell_qty) THEN "sell"
                             ELSE "loop"
                    /\ UNCHANGED err
    /\ UNCHANGED <<trade_q, action_q, sc_dates, sc_i, snapshots, tr, ret, log>>
    /\ UNCHANGED MainVars

\* After the loop: the remaining snapshot dates are captured and the function returns
Finalize ==
    /\ pc = "loop"
    /\ trade_q = <<>> /\ action_q = <<>>
    /\ LET c == finalize(inventories, sc_dates, sc_i, snapshots)
       IN  /\ sc_i' = c.i
           /\ snapshots' = c.snapshots
           /\ ret' = <<inventories, realized_pnl_records, c.snapshots>>
    /\ pc' = "returned"
    /\ UNCHANGED <<inventories, trade_q, action_q, realized_pnl_records, sc_dates,
                   tr, remaining_qty, err, log>>
    /\ UNCHANGED MainVars

(***************************************************************************)
(* run_year.main after apply_trades_fifo: the outputs are written           *)
(***************************************************************************)
NextInventoryFile == "next_year/inventory.csv"
RealizedPnlFile == "year/realized_pnl.csv"
DividendsFile == "year/dividends.csv"

\* the call has ended, by a return or by an exception
CallEnded == pc \in {"returned", "raised"}

\* apply_trades_fifo has returned to main
CallReturned == pc = "returned"

\* save_inventories: one row per lot, symbol by symbol; a symbol without lots
\* leaves no row
inventory_rows(invs) ==
    [s \in {x \in DOMAIN invs : invs[x] # <<>>} |->
        [j \in DOMAIN invs[s] |->
            [transaction_date |-> invs[s][j].date, stock_symbol |-> s,
             qty |-> invs[s][j].qty, price |-> invs[s][j].price]]]

SaveInventories ==
    /\ CallReturned
    /\ files' = DictSet(files, NextInventoryFile, inventory_rows(inventories))
    /\ pc' = "inventory_saved"
    /\ UNCHANGED <<inventories, trade_q, action_q, realized_pnl_records, sc_dates, sc_i,
                   snapshots, tr, remaining_qty, err, ret, log, div_df_year,
                   dividend_ledger_df, first_run, trades_df, actions_df>>

\* save_realized_pnl: the records returned, the seven columns of each
SaveRealizedPnl ==
    /\ pc = "inventory_saved"
    /\ files' = DictSet(files, RealizedPnlFile,
                        [j \in DOMAIN ret[2] |->
                            [c \in {"transaction_date", "stock_symbol", "sell_qty",
                                    "sell_price", "buy_date", "buy_price", "realized_pnl"}
                             |-> ret[2][j][c]]])
    /\ pc' = "pnl_saved"
    /\ UNCHANGED <<inventories, trade_q, action_q, realized_pnl_records, sc_dates, sc_i,
                   snapshots, tr, remaining_qty, err, ret, log, div_df_year,
                   dividend_ledger_df, first_run, trades_df, actions_df>>

\* compute_dividend_ledger and save_dividend_ledger, when there are dividends
DividendLedger ==
    /\ pc = "pnl_saved"
    /\ IF div_df_year # <<>>
       THEN /\ dividend_ledger_df' = compute_dividend_ledger(div_df_year, ret[3])
            /\ files' = DictSet(files, DividendsFile,
                                compute_dividend_ledger(div_df_year, ret[3]))
       ELSE UNCHANGED <<dividend_ledger_df, files>>
    /\ pc' = "finished"
    /\ UNCHANGED <<inventories, trade_q, action_q, realized_pnl_records, sc_dates, sc_i,
                   snapshots, tr, remaining_qty, err, ret, log, div_df_year, first_run,
                   trades_df, actions_df>>

Next ==
    \/ LoopTop
    \/ DispatchAction
    \/ DispatchTrade
    \/ SellIter
    \/ Finalize
    \/ SaveInventories
    \/ SaveRealizedPnl
    \/ DividendLedger

(***************************************************************************)
(* Inputs.  The engine starts from the queues its preparation leaves:      *)
(* trade_q and action_q sorted by their dates (sort_values), the opening    *)
(* lots of each symbol sorted by date (inventory_df_to_queues), the         *)
(* collector's dates normalized and sorted.  Ties are in any order.         *)
(***************************************************************************)
MaxLots == 2
MaxTrades == 2
MaxActions == 1
MaxSnapTrades == 4
MaxSnaps == 3

Trade(date, symbol, side, qty, price) ==
    [transaction_date |-> date, stock_symbol |-> symbol, side |-> side, qty |-> qty,
     price |-> price]

Action(date, symbol, type, rf, rt) ==
    [action_date |-> date, symbol |-> symbol, action_type |-> type, ratio_from |-> rf,
     ratio_to |-> rt]

\* The sequences of at most n elements of rows in nondecreasing (strict:
\* increasing) order of key
RECURSIVE SortedSeqs(_, _, _, _)
SortedSeqs(rows, key, n, strict) ==
    IF n = 0 THEN {<<>>}
    ELSE LET S    == SortedSeqs(rows, key, n - 1, strict)
             last == {q \in S : Len(q) = n - 1}
             ok   == {p \in last \X rows :
                         \/ p[1] = <<>>
                         \/ key[p[1][n - 1]] < key[p[2]]
                         \/ ~strict /\ key[p[1][n - 1]] = key[p[2]]}
         IN  S \cup {Append(p[1], p[2]) : p \in ok}

TradeSeqs(rows, n, strict) ==
    SortedSeqs(rows, [r \in rows |-> r.transaction_date], n, strict)

ActionSeqs(rows, n) == SortedSeqs(rows, [r \in rows |-> r.action_date], n, FALSE)

LotSeqs(lots, n) == SortedSeqs(lots, [l \in lots |-> l.date], n, FALSE)

\* The collector's dates: normalized and sorted (SnapshotCollector.__init__)
DateSeqs(days, n, strict) == SortedSeqs(days, [d \in days |-> d], n, strict)

\* dicts symbol -> non-empty queue, the queue of symbol s taken from Q[s]
Inventories(Q) ==
    UNION {[S -> UNION {Q[s] : s \in S}] : S \in SUBSET DOMAIN Q}

OpeningInventories(Q) ==
    {inv \in Inventories(Q) : \A s \in DOMAIN inv : inv[s] \in Q[s] /\ inv[s] # <<>>}

\* The year's dividends whose snapshot dates are the given dates: one record
\* of A per date, ex-dividend the day after
DividendsOn(dates) ==
    [j \in DOMAIN dates |-> Dividend("A", dates[j] + OneDay, FFromInt(1))]

(***************************************************************************)
(* Preparation of the two queues from the rows as loaded                    *)
(***************************************************************************)
\* A missing value of a text column
NA == "<NA>"

\* df.dropna(subset): the rows none of whose columns in subset is missing
dropna(df, subset) == SelectSeq(df, LAMBDA r : \A c \in subset : r[c] # NA)

\* The orders of n rows
Orderings(n) == {p \in [1..n -> 1..n] : \A i, j \in 1..n : i # j => p[i] # p[j]}

\* the rows left in the order they were loaded in
sort_values_unsorted(df, by) == {df}

\* df.sort_values(by=[by]) with the default kind, which is not a stable sort:
\* the rows in nondecreasing order of the column, rows with equal values in
\* whichever order the sort leaves them
sort_values(df, by) ==
    {[i \in 1..Len(df) |-> df[p[i]]] :
        p \in {o \in Orderings(Len(df)) :
                  \A i \in 1..(Len(df) - 1) : df[o[i]][by] <= df[o[i + 1]][by]}}

\* The year of the run, and the calendar year of a timestamp
year == 0
DaysPerYear == 8
year_of(ts) == (ts \div TicksPerDay) \div DaysPerYear

\* prepare_action_queue: complete rows of the year, sorted by action_date
prepare_action_queue(corp_actions_df, yr) ==
    sort_values(SelectSeq(dropna(corp_actions_df, {"symbol", "action_type"}),
                          LAMBDA r : year_of(r.action_date) = yr),
                "action_date")

\* The trade queue of apply_trades_fifo: complete rows sorted by
\* transaction_date, of whatever year
prepare_trade_queue(df) ==
    sort_values(dropna(df, {"stock_symbol", "side"}), "transaction_date")

\* main up to the merge loop: the collector is built from the snapshot dates
\* the year's dividends need
InitCall(INV, DV) ==
    /\ inventories \in INV
    /\ div_df_year \in DV
    /\ sc_dates = SnapshotCollector(build_needed_snapshot_map(div_df_year)).dates
    /\ dividend_ledger_df = <<>>
    /\ files = EmptyDict
    /\ first_run = <<>>
    /\ realized_pnl_records = <<>>
    /\ sc_i = 0
    /\ snapshots = EmptyDict
    /\ pc = "loop"
    /\ tr = NoTrade
    /\ remaining_qty = 0
    /\ err = NoErr
    /\ ret = <<>>
    /\ log = <<>>

\* The rows as loaded are already in the order of the queues, and every
\* action is of the year
InitMain(TQ, AQ, INV, DV) ==
    /\ trade_q \in TQ
    /\ action_q \in AQ
    /\ trades_df = trade_q
    /\ actions_df = action_q
    /\ InitCall(INV, DV)

InitFrom(TQ, AQ, INV, SD) == InitMain(TQ, AQ, INV, {DividendsOn(dates) : dates \in SD})

\* Prices
P1 == FFromInt(1)
P2 == FFromInt(2)
P3 == FFromInt(3)
P10 == FFromInt(10)
P09 == FParse(9, 10)

\* FIFO matching: up to MaxLots opening lots of A, trades on one day
FifoLots == {Lot(q, p, Ts(0, 0)) : q \in {1, 2}, p \in {P1, P2}}

FifoTrades ==
    {Trade(Ts(1, 0), "A", "BUY", q, P3) : q \in {1, 2}}
    \cup {Trade(Ts(1, 0), "A", "SELL", q, P2) : q \in {1, 2, 3}}
    \cup {Trade(Ts(1, 0), "B", "BUY", 1, P1), Trade(Ts(1, 0), "B", "SELL", 1, P2)}

InitFifo ==
    InitFrom(TradeSeqs(FifoTrades, MaxTrades, FALSE), {<<>>},
             OpeningInventories([s \in {"A"} |-> LotSeqs(FifoLots, MaxLots)]), {<<>>})

\* Merge of the two streams: trades and actions on two days, with times of day
MergeTs == {Ts(d, t) : d \in {1, 2}, t \in {0, 1}}

MergeTrades == {Trade(ts, "A", side, 1, P10) : ts \in MergeTs, side \in {"BUY", "SELL"}}

MergeActions == {Action(ts, "A", "SPLIT", 1, 2) : ts \in MergeTs}

MergeInventory == [s \in Symbols |->
                      IF s = "A" THEN <<Lot(1, P09, Ts(0, 0))>> ELSE <<Lot(2, P10, Ts(0, 0))>>]

InitMerge ==
    InitFrom(TradeSeqs(MergeTrades, MaxTrades, FALSE), ActionSeqs(MergeActions, MaxActions),
             {MergeInventory}, {<<>>})

\* Corporate actions of every kind against up to MaxLots lots
SplitLots ==
    {Lot(q, p, Ts(0, 0)) : q \in {1, 2}, p \in {P09, P10}} \cup {Lot(10, P10, Ts(0, 0))}

SplitActions ==
    {Action(Ts(1, 1), "A", "SPLIT", r[1], r[2]) :
        r \in {<<1, 2>>, <<1, 3>>, <<2, 1>>, <<2, 3>>, <<0, 1>>, <<1, 0>>, <<-1, 2>>}}
    \cup {Action(Ts(1, 1), "A", ty, 1, 2) : ty \in {"split", "MERGE"}}
    \cup {Action(Ts(1, 1), "B", "SPLIT", 1, 2)}

SplitTrades ==
    {Trade(ts, "A", "BUY", 1, P10) : ts \in {Ts(1, 0), Ts(2, 0)}}
    \cup {Trade(Ts(2, 0), "A", "HOLD", 1, P10)}

InitSplit ==
    InitFrom(TradeSeqs(SplitTrades, 1, FALSE), ActionSeqs(SplitActions, MaxActions),
             OpeningInventories([s \in Symbols |->
                 IF s = "A" THEN LotSeqs(SplitLots, MaxLots)
                 ELSE {<<>>, <<Lot(2, P10, Ts(0, 0))>>}]),
             {<<>>})

\* Snapshots: events on distinct days, up to MaxSnaps requested dates
SnapDays == {Ts(d, 0) : d \in 1..4}

SnapTrades == {Trade(ts, "A", side, 1, P10) : ts \in SnapDays, side \in {"BUY", "SELL"}}

SnapActions == {Action(ts, "A", "SPLIT", 1, 2) : ts \in SnapDays}

InitSnap ==
    InitFrom(TradeSeqs(SnapTrades, MaxSnapTrades, TRUE), ActionSeqs(SnapActions, MaxActions),
             {EmptyDict}, DateSeqs(SnapDays, MaxSnaps, TRUE))

\* Snapshots against events with a time of day
InitSnapTicks ==
    InitFrom(TradeSeqs({Trade(ts, "A", "BUY", 1, P10) : ts \in MergeTs}, MaxTrades, FALSE),
             ActionSeqs({Action(ts, "A", "SPLIT", 1, 2) : ts \in MergeTs}, MaxActions),
             {EmptyDict}, DateSeqs({Ts(1, 0), Ts(2, 0)}, 2, TRUE))

\* Dividends of two symbols, as prepare_dividends_for_year leaves them: dates
\* normalized, sorted by symbol and ex-dividend date
MaxDividends == 2

YearDividends ==
    {Dividend(s, Ts(d, 0), p) : s \in Symbols, d \in {2, 3}, p \in {P1, P09}}

DividendSeqs(rows, n) ==
    SortedSeqs(rows, [r \in rows |-> (IF r.symbol = "A" THEN 0 ELSE 100 * OneDay)
                                      + r.ex_dividend_date], n, FALSE)

InitDividends ==
    InitMain(TradeSeqs({Trade(Ts(1, 0), "B", "BUY", 1, P10),
                        Trade(Ts(1, 0), "B", "BUY", 0, P10),
                        Trade(Ts(2, 0), "A", "SELL", 1, P10),
                        Trade(Ts(2, 1), "A", "SELL", 3, P10)}, 1, FALSE),
             {<<>>},
             {[s \in {"A"} |-> <<Lot(3, P10, Ts(0, 0))>>]},
             DividendSeqs(YearDividends, MaxDividends))

\* Opening lots of several acquisition dates, some later than the trades, and
\* SELLs of every size from 0 to more than a lot
DatedLots == {Lot(2, P10, ts) : ts \in {Ts(0, 0), Ts(0, 1), Ts(1, 0), Ts(2, 0)}}

DatedTrades ==
    {Trade(ts, "A", "BUY", 1, P10) : ts \in {Ts(1, 0), Ts(1, 1), Ts(2, 0)}}
    \cup {Trade(Ts(1, 0), "A", "SELL", 0, P10), Trade(Ts(1, 1), "A", "SELL", 1, P10),
          Trade(Ts(2, 0), "A", "SELL", 2, P10), Trade(Ts(2, 0), "A", "SELL", 3, P10)}

InitDates ==
    InitFrom(TradeSeqs(DatedTrades, MaxTrades, FALSE),
             ActionSeqs({Action(Ts(1, 1), "A", "SPLIT", 1, 2)}, MaxActions),
             OpeningInventories([s \in {"A"} |-> LotSeqs(DatedLots, MaxLots)]), {<<>>})

SpecDates == InitDates /\ [][Next]_vars

Init == InitFifo \/ InitMerge \/ InitSplit \/ InitSnap \/ InitSnapTicks \/ InitDividends

Spec == Init /\ [][Next]_vars

\* ENABLED <<Next>>_vars: every statement but the last has a next one, and each
\* step changes pc or takes a lot off a queue
NextEnabled == pc \notin {"raised", "finished"}

\* The run is one thread that executes its next statement as long as there is
\* one.  The last conjunct is WF_vars(Next), that is, []<>~ENABLED <<Next>>_vars
\* or []<><<Next>>_vars, with ENABLED <<Next>>_vars written out as NextEnabled;
\* it covers the steps that compute on floats (the SPLIT, the SELL loop, the
\* dividend ledger) together with the others
Fairness ==
    /\ WF_vars(LoopTop)
    /\ WF_vars(DispatchTrade)
    /\ WF_vars(Finalize)
    /\ WF_vars(SaveInventories)
    /\ WF_vars(SaveRealizedPnl)
    /\ []<>(~NextEnabled) \/ []<><<Next>>_vars

\* The runs with both streams, every error, times of day, dated lots and
\* requested snapshot dates
InitFair == InitMerge \/ InitSplit \/ InitSnapTicks \/ InitDividends \/ InitDates

FairSpec == InitFair /\ [][Next]_vars /\ Fairness

(***************************************************************************)
(* The collector on its own, driven as the manual test of snapshots.py       *)
(* drives it: consume_until and finalize calls interleaved with lots         *)
(* appended to the inventories                                               *)
(***************************************************************************)
MaxTestDates == 3
MaxTestLots == 3

TestTs == {Ts(d, t) : d \in {1, 2, 3}, t \in {0, 1}}

RECURSIVE RawSeqs(_, _)
RawSeqs(S, n) ==
    IF n = 0 THEN {<<>>}
    ELSE RawSeqs(S, n - 1) \cup
         {Append(q, x) : q \in {r \in RawSeqs(S, n - 1) : Len(r) = n - 1}, x \in S}

RECURSIVE CountLots(_, _)
CountLots(inv, syms) ==
    IF syms = {} THEN 0
    ELSE LET s == CHOOSE x \in syms : TRUE
         IN  Len(inv[s]) + CountLots(inv, syms \ {s})

InitTest ==
    /\ \E raw \in RawSeqs(TestTs, MaxTestDates) :
          LET c == SnapshotCollector(raw)
          IN  /\ sc_dates = c.dates
              /\ sc_i = c.i
              /\ snapshots = c.snapshots
    /\ inventories = [s \in Symbols |-> <<>>]
    /\ trade_q = <<>>
    /\ action_q = <<>>
    /\ realized_pnl_records = <<>>
    /\ pc = "test"
    /\ tr = NoTrade
    /\ remaining_qty = 0
    /\ err = NoErr
    /\ ret = <<>>
    /\ log = <<>>
    /\ div_df_year = <<>>
    /\ dividend_ledger_df = <<>>
    /\ files = EmptyDict
    /\ first_run = <<>>
    /\ trades_df = <<>>
    /\ actions_df = <<>>

TestFrame == UNCHANGED <<trade_q, action_q, realized_pnl_records, sc_dates, pc, tr,
                         remaining_qty, err, ret, log, div_df_year, dividend_ledger_df,
                         files, first_run, trades_df, actions_df>>

\* inventories[symbol].append(Lot(qty))
TestAppend ==
    /\ pc = "test"
    /\ CountLots(inventories, DOMAIN inventories) < MaxTestLots
    /\ \E symbol \in Symbols, qty \in {1, 2, -1} :
          inventories' = DictSet(inventories, symbol,
                                 Append(inventories[symbol], Lot(qty, P1, Ts(0, 0))))
    /\ UNCHANGED <<sc_i, snapshots>>
    /\ TestFrame

\* collector.consume_until(next_event_date, inventories)
TestConsumeUntil ==
    /\ pc = "test"
    /\ \E next_event_date \in TestTs \cup {Ts(4, 0)} :
          LET c == consume_until(next_event_date, inventories, sc_dates, sc_i, snapshots)
          IN  /\ sc_i' = c.i
              /\ snapshots' = c.snapshots
    /\ UNCHANGED inventories
    /\ TestFrame

\* collector.finalize(inventories)
TestFinalize ==
    /\ pc = "test"
    /\ LET c == finalize(inventories, sc_dates, sc_i, snapshots)
       IN  /\ sc_i' = c.i
           /\ snapshots' = c.snapshots
    /\ UNCHANGED inventories
    /\ TestFrame

NextTest == TestAppend \/ TestConsumeUntil \/ TestFinalize

SpecCollector == InitTest /\ [][NextTest]_vars

(***************************************************************************)
(* compute_dividend_ledger on its own, as the manual test of dividends.py    *)
(* calls it: any dividend records against any snapshot map                   *)
(***************************************************************************)
LedgerDividends ==
    {Dividend(s, ts, p) : s \in {"A", " A", "B"}, ts \in {Ts(2, 0), Ts(2, 1), Ts(3, 0)},
                          p \in {P1, P09}}

FakeSnapshotDates == {Ts(1, 0), Ts(2, 0)}

FakeQuantities ==
    UNION {[S -> {1, 3}] : S \in SUBSET Symbols}

FakeSnapshots ==
    UNION {[D -> FakeQuantities] : D \in SUBSET FakeSnapshotDates}

InitLedger ==
    /\ div_df_year \in RawSeqs(LedgerDividends, MaxDividends)
    /\ snapshots \in FakeSnapshots
    /\ dividend_ledger_df = <<>>
    /\ files = EmptyDict
    /\ first_run = <<>>
    /\ trades_df = <<>>
    /\ actions_df = <<>>
    /\ inventories = EmptyDict
    /\ trade_q = <<>>
    /\ action_q = <<>>
    /\ realized_pnl_records = <<>>
    /\ sc_dates = <<>>
    /\ sc_i = 0
    /\ pc = "ledger"
    /\ tr = NoTrade
    /\ remaining_qty = 0
    /\ err = NoErr
    /\ ret = <<>>
    /\ log = <<>>

\* ledger = compute_dividend_ledger(div_df_year, fake_snapshots)
LedgerCall ==
    /\ pc = "ledger"
    /\ dividend_ledger_df' = compute_dividend_ledger(div_df_year, snapshots)
    /\ pc' = "ledger_done"
    /\ UNCHANGED <<inventories, trade_q, action_q, realized_pnl_records, sc_dates, sc_i,
                   snapshots, tr, remaining_qty, err, ret, log, div_df_year, files,
                   first_run, trades_df, actions_df>>

NextLedger == LedgerCall

SpecLedger == InitLedger /\ [][NextLedger]_vars

(***************************************************************************)
(* Runs on rows as loaded: out of order, with times of day, with missing     *)
(* symbols, with actions and trades of another year                          *)
(***************************************************************************)
MaxRawTrades == 2
MaxRawActions == 2

NextYear == Ts(DaysPerYear, 0)

PrepareTrades ==
    {Trade(Ts(2, 0), "A", "BUY", 1, P10), Trade(Ts(2, 0), "A", "SELL", 1, P10),
     Trade(Ts(1, 1), "A", "BUY", 1, P10), Trade(Ts(1, 0), "A", "SELL", 1, P10),
     Trade(Ts(1, 0), NA, "BUY", 1, P10), Trade(NextYear, "B", "BUY", 1, P10)}

PrepareActions ==
    {Action(Ts(2, 0), "A", "SPLIT", 1, 2), Action(Ts(2, 0), "A", "SPLIT", 1, 3),
     Action(Ts(1, 0), NA, "SPLIT", 1, 2), Action(NextYear, "A", "SPLIT", 1, 2)}

PrepareInventories == {EmptyDict, [s \in {"A"} |-> <<Lot(1, P09, Ts(0, 0))>>]}

InitPrepare ==
    /\ trades_df \in RawSeqs(PrepareTrades, MaxRawTrades)
    /\ actions_df \in RawSeqs(PrepareActions, MaxRawActions)
    /\ trade_q \in prepare_trade_queue(trades_df)
    /\ action_q \in prepare_action_queue(actions_df, year)
    /\ InitCall(PrepareInventories, {DividendsOn(<<Ts(1, 0)>>)})

SpecPrepare == InitPrepare /\ [][Next]_vars

(***************************************************************************)
(* Properties                                                               *)
(***************************************************************************)
Max(a, b) == IF a >= b THEN a ELSE b

\* The last event taken from the queues, and the SELL it may be
LastEvent == log[Len(log)]

LastIsTrade(side) ==
    log # <<>> /\ LastEvent.kind = "trade" /\ upper(LastEvent.event.side) = side

LastSymbol == strip(LastEvent.event.stock_symbol)

\* The symbol's queue when the last trade was taken
QueueBefore == DictGet(LastEvent.inventories, LastSymbol, <<>>)

\* The disposal records the last trade has appended so far
SellRecords ==
    SubSeq(realized_pnl_records, LastEvent.nrec + 1, Len(realized_pnl_records))

\* What FIFO order takes from the i-th lot of q when c shares are sold: what
\* is left of c after the lots before it, up to the lot's quantity
FifoShare(q, i, c) == Max(0, Min(q[i].qty, c - SumQty(SubSeq(q, 1, i - 1))))

\* q after c shares left it in FIFO order
FifoRest(q, c) ==
    LET touched == {i \in 1..Len(q) : FifoShare(q, i, c) > 0}
        kept    == {i \in 1..Len(q) : FifoShare(q, i, c) < q[i].qty}
        first   == IF kept = {} THEN Len(q) + 1
                   ELSE CHOOSE i \in kept : \A j \in kept : i <= j
    IN  [j \in 1..(Len(q) - first + 1) |->
            LET i == first + j - 1
            IN  [q[i] EXCEPT !.qty = q[i].qty - FifoShare(q, i, c)]]

\* C1: a SELL of no more than the symbol's total consumes the lots in enqueue
\* order whatever their prices: at every point of the matching the records of
\* the SELL are, in order, one per lot from the head of the queue as it was
\* when the SELL was taken, each lot before the last one touched is consumed
\* whole, and the queue holds what FIFO order leaves.
C1_FifoOrder ==
    (LastIsTrade("SELL") /\ LastEvent.event.qty <= SumQty(QueueBefore)) =>
        LET q0   == QueueBefore
            c    == LastEvent.event.qty - remaining_qty
            recs == SellRecords
            n    == Len(recs)
        IN  /\ n <= Len(q0)
            /\ \A i \in 1..n :
                  /\ recs[i].buy_date = q0[i].date
                  /\ recs[i].buy_price = q0[i].price
                  /\ recs[i].sell_qty = FifoShare(q0, i, c)
                  /\ recs[i].sell_qty > 0
            /\ \A i \in 1..(n - 1) : recs[i].sell_qty = q0[i].qty
            /\ \A i \in (n + 1)..Len(q0) : FifoShare(q0, i, c) = 0
            /\ inventories[LastSymbol] = FifoRest(q0, c)

\* A finished SELL that crossed a dearer lot whole and then part of a cheaper one
C1_Witness ==
    /\ LastIsTrade("SELL")
    /\ pc = "loop"
    /\ Len(QueueBefore) = 2
    /\ QueueBefore[1].price = P2 /\ QueueBefore[2].price = P1
    /\ Len(SellRecords) = 2
    /\ SellRecords[1].sell_qty = QueueBefore[1].qty
    /\ SellRecords[2].sell_qty < QueueBefore[2].qty
    /\ Len(inventories[LastSymbol]) = 1

\* C2: same-day tie-break.  When an action is taken, no trade still pending
\* carries its calendar date: every trade of that day went before it (so a BUY
\* and a SPLIT of one day end as one split lot).
C2_TradeBeforeAction ==
    (log # <<>> /\ LastEvent.kind = "action") =>
        \A i \in 1..Len(trade_q) :
            normalize(trade_q[i].transaction_date)
                # normalize(LastEvent.event.action_date)

EventDate(h) ==
    IF h.kind = "trade" THEN h.event.transaction_date ELSE h.event.action_date

\* The inventory as it stood immediately before the first event of the run
\* whose calendar date is in D; the final inventory if there is none
InventoryBeforeFirst(D) ==
    LET I == {i \in 1..Len(log) : normalize(EventDate(log[i])) \in D}
    IN  IF I = {} THEN inventories
        ELSE log[CHOOSE i \in I : \A j \in I : i <= j].inventories

AllDays == 0..((Len(log) + Len(sc_dates) + 8) * TicksPerDay)

RequestedDates == {sc_dates[j] : j \in 1..Len(sc_dates)}

Ascending(dts) == \A j \in 1..(Len(dts) - 1) : dts[j] < dts[j + 1]

\* C4 as stated: once the run has returned, the snapshot of each requested
\* date equals the inventory immediately before the first event dated on or
\* after that date.
C4_SnapshotBeforeOnOrAfter ==
    (pc = "returned" /\ Ascending(sc_dates)) =>
        \A d \in RequestedDates :
            /\ d \in DOMAIN snapshots
            /\ snapshots[d] =
                  snapshot_inventory(InventoryBeforeFirst({x \in AllDays : x >= d}))

\* C4 amended: for ascending requested dates, once the run has returned each
\* requested date has been captured exactly once (the cursor has passed every
\* index, the map holds exactly the requested dates) and its snapshot equals
\* the inventory immediately before the first event dated strictly after that
\* date: the events of the date itself are in it.
C4_SnapshotBeforeFirstAfter ==
    (pc = "returned" /\ Ascending(sc_dates)) =>
        /\ sc_i = Len(sc_dates)
        /\ DOMAIN snapshots = RequestedDates
        /\ \A d \in RequestedDates :
              snapshots[d] =
                  snapshot_inventory(InventoryBeforeFirst({x \in AllDays : x > d}))

\* Three requested dates with an event on or before the first, between each
\* two and after the last, and four different holdings
C4_Witness ==
    /\ pc = "returned"
    /\ Len(sc_dates) = 3
    /\ Ascending(sc_dates)
    /\ \E a, b, c, e \in 1..Len(log) :
          /\ normalize(EventDate(log[a])) <= sc_dates[1]
          /\ sc_dates[1] < normalize(EventDate(log[b]))
          /\ normalize(EventDate(log[b])) <= sc_dates[2]
          /\ sc_dates[2] < normalize(EventDate(log[c]))
          /\ normalize(EventDate(log[c])) <= sc_dates[3]
          /\ sc_dates[3] < normalize(EventDate(log[e]))
    /\ Cardinality({snapshots[d] : d \in RequestedDates}
                   \cup {snapshot_inventory(inventories)}) = 4

\* C5: at the head of each loop iteration, before the next event is taken,
\* every pending snapshot date strictly earlier than that event's calendar
\* date is captured against the inventory as it stands, which the step leaves
\* untouched, and no pending date equal to or later than it is captured.
C5_CatchUpBeforeDispatch ==
    [][(pc = "loop" /\ pc' = "dispatch") =>
          LET nextDate == normalize(IF ActionIsNext THEN action_q[1].action_date
                                    ELSE trade_q[1].transaction_date)
          IN  /\ inventories' = inventories
              /\ \A j \in (sc_i + 1)..Len(sc_dates) :
                    /\ sc_dates[j] < nextDate =>
                          /\ j <= sc_i'
                          /\ sc_dates[j] \in DOMAIN snapshots'
                          /\ snapshots'[sc_dates[j]] = snapshot_inventory(inventories)
                    /\ sc_dates[j] >= nextDate =>
                          /\ j > sc_i'
                          /\ sc_dates[j] \in DOMAIN snapshots' <=>
                                 sc_dates[j] \in DOMAIN snapshots]_vars

\* The collector has just captured one date and left pending the date of the
\* next event, which carries a time of day
C5_Witness ==
    /\ pc = "dispatch"
    /\ ~ActionIsNext
    /\ trade_q[1].transaction_date % TicksPerDay # 0
    /\ sc_i = 1
    /\ Len(sc_dates) = 2
    /\ sc_dates[2] = normalize(trade_q[1].transaction_date)
    /\ snapshots[sc_dates[1]] # EmptyDict
    /\ log # <<>>
    /\ LastEvent.sc_i = 0

\* C6: across any sequence of consume_until / finalize calls interleaved with
\* inventory mutations, the cursor never decreases and an entry of the
\* snapshot map, once written, keeps its content, duplicates in the requested
\* date list included.
C6_AppendOnlyForwardOnly ==
    [][/\ sc_i' >= sc_i
       /\ \A d \in DOMAIN snapshots :
             /\ d \in DOMAIN snapshots'
             /\ snapshots'[d] = snapshots[d]]_vars

\* A requested date given twice has been captured, the inventory has changed
\* since, and the cursor has passed every date
C6_Witness ==
    /\ pc = "test"
    /\ sc_i = Len(sc_dates)
    /\ \E j \in 1..(Len(sc_dates) - 1) :
          /\ sc_dates[j] = sc_dates[j + 1]
          /\ sc_dates[j] \in DOMAIN snapshots
          /\ snapshots[sc_dates[j]] # snapshot_inventory(inventories)
    /\ \E d, e \in DOMAIN snapshots : snapshots[d] # snapshots[e]

\* C7 as stated: when a SELL has failed for want of inventory, the symbol's
\* queue the caller holds is the queue as it was before that SELL, and the
\* call has returned nothing, no disposal record included.
C7_NoPartialSell ==
    (pc = "raised" /\ err = ErrNotEnough) =>
        /\ DictGet(inventories, LastSymbol, <<>>) = QueueBefore
        /\ ret = <<>>

\* C8: a SELL of a positive quantity of a symbol whose queue holds no lot, a
\* symbol never seen before included, never completes: it raises
\* "Not enough inventory", appends no disposal record and nothing is returned.
C8_SellFromEmpty ==
    /\ []((LastIsTrade("SELL") /\ LastEvent.event.qty > 0 /\ QueueBefore = <<>>) =>
             /\ pc \in {"sell", "raised"}
             /\ pc = "raised" => err = ErrNotEnough
             /\ SellRecords = <<>>
             /\ ret = <<>>)
    /\ [][(pc = "sell" /\ QueueBefore = <<>>) =>
             (pc' = "raised" /\ err' = ErrNotEnough)]_vars

\* A SELL of a symbol the inventories never held has failed
C8_Witness ==
    /\ pc = "raised"
    /\ err = ErrNotEnough
    /\ LastIsTrade("SELL")
    /\ LastEvent.event.qty > 0
    /\ LastSymbol \notin DOMAIN LastEvent.inventories
    /\ QueueBefore = <<>>

ValidSplit(act) ==
    /\ upper(strip(act.action_type)) = "SPLIT"
    /\ act.ratio_from > 0
    /\ act.ratio_to > 0
    /\ act.ratio_to % act.ratio_from = 0

\* q is a float nearest to p / k: same sign, and k*q is within k half-units
\* in the last place of q from p (exact arithmetic on the significands)
NearestQuotient(q, p, k) ==
    IF FIsZero(p) THEN FIsZero(q)
    ELSE /\ ~FIsZero(q)
         /\ q.neg = p.neg
         /\ BNBitLen(q.m) = MantBits
         /\ p.e - q.e + 1 >= 0
         /\ LET a == BNMulSmall(q.m, 2 * k)
                b == BNShl(p.m, p.e - q.e + 1)
                d == IF BNCmp(a, b) >= 0 THEN BNSub(a, b) ELSE BNSub(b, a)
            IN  BNCmp(d, BNFromNat(k)) <= 0

\* q is p / k exactly
ExactQuotient(q, p, k) ==
    IF FIsZero(p) THEN FIsZero(q)
    ELSE /\ ~FIsZero(q)
         /\ p.e - q.e >= 0
         /\ BNMulSmall(q.m, k) = BNShl(p.m, p.e - q.e)

\* What C9 says of every lot except its cost
SplitShape(old, new, k) ==
    /\ Len(new) = Len(old)
    /\ \A j \in 1..Len(old) :
          /\ new[j].qty = old[j].qty * k
          /\ new[j].date = old[j].date
          /\ NearestQuotient(new[j].price, old[j].price, k)

\* C9 as stated: a valid SPLIT with multiplier k multiplies each lot's
\* quantity by k, divides its unit cost by k, keeps its date, the number and
\* the order of the lots, and keeps each lot's quantity * unit_cost.
C9_SplitKeepsCost ==
    [][(pc = "dispatch" /\ ActionIsNext /\ ValidSplit(Head(action_q))) =>
          LET act == Head(action_q)
              k   == act.ratio_to \div act.ratio_from
              old == DictGet(inventories, strip(act.symbol), <<>>)
              new == inventories'[strip(act.symbol)]
          IN  /\ SplitShape(old, new, k)
              /\ \A j \in 1..Len(old) :
                    FEq(FMulInt(new[j].qty, new[j].price),
                        FMulInt(old[j].qty, old[j].price))]_vars

\* C9 amended: a valid SPLIT with multiplier k multiplies each lot's quantity
\* by k, sets its unit cost to a float nearest to unit_cost / k, keeps its
\* date, the number and the order of the lots; quantity * unit_cost is kept
\* when unit_cost / k is a float (10@10 under 1->2 becomes 20@5, cost 100),
\* and otherwise only up to the rounding of that division.
C9_SplitKeepsCostUpToRounding ==
    [][(pc = "dispatch" /\ ActionIsNext /\ ValidSplit(Head(action_q))) =>
          LET act == Head(action_q)
              k   == act.ratio_to \div act.ratio_from
              old == DictGet(inventories, strip(act.symbol), <<>>)
              new == inventories'[strip(act.symbol)]
          IN  /\ SplitShape(old, new, k)
              /\ \A j \in 1..Len(old) :
                    ExactQuotient(new[j].price, old[j].price, k) =>
                        FEq(FMulInt(new[j].qty, new[j].price),
                            FMulInt(old[j].qty, old[j].price))]_vars

\* 10@10 has become 20@5 under SPLIT 1->2, behind a lot at 0.9 whose cost the
\* split kept as well
C9_Witness ==
    /\ pc = "loop"
    /\ log # <<>>
    /\ LastEvent.kind = "action"
    /\ ValidSplit(LastEvent.event)
    /\ LastEvent.event.ratio_from = 1 /\ LastEvent.event.ratio_to = 2
    /\ LET old == DictGet(LastEvent.inventories, strip(LastEvent.event.symbol), <<>>)
           new == inventories[strip(LastEvent.event.symbol)]
       IN  /\ Len(old) = 2
           /\ old[1].price = P09
           /\ old[2] = Lot(10, P10, Ts(0, 0))
           /\ new[2] = Lot(20, FFromInt(5), Ts(0, 0))
           /\ FMulInt(new[2].qty, new[2].price) = FFromInt(100)

\* C10: dispatching an action leaves the lots of every symbol but the named
\* one unchanged and adds no lot to the named queue; a lot bought by a trade
\* dispatched later, after a SPLIT of its symbol included, enters the queue
\* with the quantity and the unit cost of its BUY, behind lots left as they
\* were.
C10_SplitFrame ==
    [][/\ (pc = "dispatch" /\ ActionIsNext) =>
             LET symbol == strip(Head(action_q).symbol)
             IN  /\ DOMAIN inventories' = DOMAIN inventories \cup {symbol}
                 /\ \A s \in DOMAIN inventories :
                       s # symbol => inventories'[s] = inventories[s]
                 /\ Len(inventories'[symbol]) = Len(DictGet(inventories, symbol, <<>>))
       /\ (pc = "dispatch" /\ ~ActionIsNext /\ upper(Head(trade_q).side) = "BUY") =>
             LET t      == Head(trade_q)
                 symbol == strip(t.stock_symbol)
                 old    == DictGet(inventories, symbol, <<>>)
                 new    == inventories'[symbol]
             IN  /\ Len(new) = Len(old) + 1
                 /\ SubSeq(new, 1, Len(old)) = old
                 /\ new[Len(new)].qty = t.qty
                 /\ new[Len(new)].price = t.price
                 /\ \A s \in DOMAIN inventories :
                       s # symbol => inventories'[s] = inventories[s]]_vars

\* A was split 1->2 while B held a lot, and A was bought afterwards: the
\* opening lot of A is doubled, B's lot and the bought lot are not
C10_Witness ==
    /\ pc = "loop"
    /\ Len(log) = 2
    /\ log[1].kind = "action"
    /\ ValidSplit(log[1].event)
    /\ strip(log[1].event.symbol) = "A"
    /\ log[1].event.ratio_to = 2 * log[1].event.ratio_from
    /\ LastIsTrade("BUY")
    /\ LastSymbol = "A"
    /\ log[1].inventories["B"] # <<>>
    /\ inventories["B"] = log[1].inventories["B"]
    /\ Len(log[1].inventories["A"]) = 1
    /\ Len(inventories["A"]) = 2
    /\ inventories["A"][1].qty = 2 * log[1].inventories["A"][1].qty
    /\ inventories["A"][2].qty = LastEvent.event.qty
    /\ inventories["A"][2].price = LastEvent.event.price

\* The lots of every symbol are after the step what they were before it
LotsUnchanged ==
    /\ \A s \in DOMAIN inventories : s \in DOMAIN inventories' /\ inventories'[s] = inventories[s]
    /\ \A s \in DOMAIN inventories' : s \notin DOMAIN inventories => inventories'[s] = <<>>

InvalidSplitRatio == {ErrInvalidRatio, ErrNotMultiple}

\* C11: a SPLIT whose ratio_from or ratio_to is not positive, or whose
\* ratio_to is not an integer multiple of ratio_from (every reverse split
\* included), aborts the run with an invalid-ratio error and changes no lot.
C11_InvalidSplitRatio ==
    [][(/\ pc = "dispatch"
        /\ ActionIsNext
        /\ upper(strip(Head(action_q).action_type)) = "SPLIT"
        /\ LET rf == Head(action_q).ratio_from
               rt == Head(action_q).ratio_to
           IN  rf <= 0 \/ rt <= 0 \/ rt < rf \/ (\A k \in 1..rt : rt # k * rf))
       => /\ pc' = "raised"
          /\ err' \in InvalidSplitRatio
          /\ LotsUnchanged]_vars

\* A reverse split 2->1 of a symbol holding lots has been refused and the
\* lots are as they were
C11_Witness ==
    /\ pc = "raised"
    /\ err = ErrNotMultiple
    /\ log # <<>>
    /\ LastEvent.kind = "action"
    /\ LastEvent.event.ratio_to < LastEvent.event.ratio_from
    /\ LastEvent.event.ratio_to > 0
    /\ DictGet(LastEvent.inventories, strip(LastEvent.event.symbol), <<>>) # <<>>
    /\ inventories = LastEvent.inventories

\* C12: a corporate action whose type is not SPLIT aborts the run with the
\* unsupported-action error, whose message is neither that of an invalid
\* ratio nor that of insufficient inventory, and changes no lot.
C12_UnsupportedAction ==
    [][(/\ pc = "dispatch"
        /\ ActionIsNext
        /\ upper(strip(Head(action_q).action_type)) # "SPLIT")
       => /\ pc' = "raised"
          /\ err' = ErrUnsupportedAction
          /\ err'.msg \notin {e.msg : e \in InvalidSplitRatio \cup {ErrNotEnough}}
          /\ LotsUnchanged]_vars

\* A MERGE of a symbol holding lots has been refused and the lots are as they
\* were
C12_Witness ==
    /\ pc = "raised"
    /\ err = ErrUnsupportedAction
    /\ log # <<>>
    /\ LastEvent.kind = "action"
    /\ LastEvent.event.action_type = "MERGE"
    /\ DictGet(LastEvent.inventories, strip(LastEvent.event.symbol), <<>>) # <<>>
    /\ inventories = LastEvent.inventories

\* The quantity the snapshot map holds for a symbol at a date, 0 when the
\* date or the symbol is not in it
QuantityAt(snaps, date, symbol) ==
    IF date \in DOMAIN snaps /\ symbol \in DOMAIN snaps[date]
    THEN snaps[date][symbol] ELSE 0

\* Entry e is the ledger entry of dividend record r against snaps
EntryOf(e, r, snaps) ==
    LET day == r.ex_dividend_date \div TicksPerDay
    IN  /\ e.symbol = strip(r.symbol)
        /\ e.ex_dividend_date = Ts(day, 0)
        /\ e.snapshot_date = Ts(day - 1, 0)
        /\ e.eligible_qty = QuantityAt(snaps, Ts(day - 1, 0), strip(r.symbol))
        /\ e.dividends_per_share = r.dividends
        /\ e.dividend_amount = FMulInt(e.eligible_qty, r.dividends)
        /\ r.dividends = FFromInt(1) => e.dividend_amount = FFromInt(e.eligible_qty)

\* C13: for every dividend record the ledger entry's snapshot date is the
\* ex-dividend date minus one day, its eligible quantity is the snapshot
\* map's quantity for the symbol at that date, 0 when the date or the symbol
\* is absent, and its amount is eligible quantity times the per-share amount.
C13_LedgerEntries ==
    (pc = "ledger_done") =>
        /\ DOMAIN dividend_ledger_df = DOMAIN div_df_year
        /\ \A j \in DOMAIN div_df_year :
              EntryOf(dividend_ledger_df[j], div_df_year[j], snapshots)

\* A ledger with an entry of a held symbol, paid 3 * 0.9, and an entry whose
\* snapshot date is not in the map, paid 0
C13_Witness ==
    /\ pc = "ledger_done"
    /\ Len(dividend_ledger_df) = 2
    /\ dividend_ledger_df[1].eligible_qty = 3
    /\ dividend_ledger_df[1].dividends_per_share = P09
    /\ dividend_ledger_df[1].dividend_amount # FZero(FALSE)
    /\ div_df_year[1].ex_dividend_date % TicksPerDay # 0
    /\ dividend_ledger_df[2].snapshot_date \notin DOMAIN snapshots
    /\ dividend_ledger_df[2].eligible_qty = 0
    /\ FIsZero(dividend_ledger_df[2].dividend_amount)

\* C14: compute_dividend_ledger returns one entry per dividend record, in the
\* records' order, records of the same symbol and date each keeping their own
\* entry, and leaves the snapshot map it reads as it was.
C14_LedgerFrame ==
    [][(pc = "ledger") =>
          /\ snapshots' = snapshots
          /\ div_df_year' = div_df_year
          /\ Len(dividend_ledger_df') = Len(div_df_year)
          /\ \A j \in 1..Len(div_df_year) :
                /\ dividend_ledger_df'[j].symbol = strip(div_df_year[j].symbol)
                /\ dividend_ledger_df'[j].ex_dividend_date
                       = normalize(div_df_year[j].ex_dividend_date)
                /\ dividend_ledger_df'[j].dividends_per_share = div_df_year[j].dividends]_vars

\* Two records of the same symbol and date, the dearer first, have two
\* entries in that order
C14_Witness ==
    /\ pc = "ledger_done"
    /\ Len(div_df_year) = 2
    /\ Len(dividend_ledger_df) = 2
    /\ strip(div_df_year[1].symbol) = strip(div_df_year[2].symbol)
    /\ normalize(div_df_year[1].ex_dividend_date) = normalize(div_df_year[2].ex_dividend_date)
    /\ dividend_ledger_df[1].dividends_per_share = P1
    /\ dividend_ledger_df[2].dividends_per_share = P09
    /\ dividend_ledger_df[1].eligible_qty > 0
    /\ snapshots # EmptyDict

OutputFiles == {NextInventoryFile, RealizedPnlFile, DividendsFile}

\* C15: when the run has aborted with an error none of the output files has
\* been written, and an output file is written only once every trade and
\* action has been dispatched, the snapshots are finalized and
\* apply_trades_fifo has returned without error.
C15_AllOrNothing ==
    /\ DOMAIN files \subseteq OutputFiles
    /\ pc = "raised" =>
          /\ err \in {ErrNotEnough, ErrInvalidRatio, ErrNotMultiple, ErrUnsupportedAction,
                      ErrUnknownSide}
          /\ files = EmptyDict
    /\ files # EmptyDict =>
          /\ err = NoErr
          /\ trade_q = <<>>
          /\ action_q = <<>>
          /\ sc_i = Len(sc_dates)
          /\ ret = <<inventories, realized_pnl_records, snapshots>>
          /\ pc \in {"inventory_saved", "pnl_saved", "finished"}

\* A run has aborted on its second event, after a SELL that had produced a
\* disposal record, and no file is written
C15_Witness ==
    /\ pc = "raised"
    /\ err = ErrNotEnough
    /\ Len(log) >= 2
    /\ realized_pnl_records # <<>>
    /\ LastEvent.nrec > 0
    /\ files = EmptyDict

\* The inventory the run started from
OpeningInventory == IF log = <<>> THEN inventories ELSE log[1].inventories

\* Every opening lot and every trade of the run, taken or pending, has a
\* quantity above zero
PositiveInputs ==
    /\ \A s \in DOMAIN OpeningInventory :
          \A j \in DOMAIN OpeningInventory[s] : OpeningInventory[s][j].qty > 0
    /\ \A j \in DOMAIN trade_q : trade_q[j].qty > 0
    /\ \A j \in DOMAIN log : log[j].kind = "trade" => log[j].event.qty > 0

\* C16: with opening lots and trades of quantity > 0, in every state of a run
\* each symbol's total quantity is >= 0 and every lot in a queue has a
\* quantity above zero.
C16_InventoryInvariant ==
    PositiveInputs =>
        \A s \in DOMAIN inventories :
            /\ SumQty(inventories[s]) >= 0
            /\ \A j \in DOMAIN inventories[s] : inventories[s][j].qty > 0

\* Between two events, after a SELL that emptied one lot and left part of
\* the next
C16_Witness ==
    /\ pc = "loop"
    /\ PositiveInputs
    /\ LastIsTrade("SELL")
    /\ Len(QueueBefore) = 2
    /\ Len(inventories[LastSymbol]) = 1
    /\ inventories[LastSymbol][1].qty < QueueBefore[2].qty
    /\ trade_q # <<>>

(***************************************************************************)
(* The program run twice on the same inputs                                 *)
(***************************************************************************)
RECURSIVE EventsTaken(_, _)
EventsTaken(kind, j) ==
    IF j > Len(log) THEN <<>>
    ELSE (IF log[j].kind = kind THEN <<log[j].event>> ELSE <<>>) \o EventsTaken(kind, j + 1)

Ended == pc \in {"raised", "finished"}

Outcome ==
    [pc |-> pc, err |-> err, events |-> log, ret |-> ret, inventories |-> inventories,
     snapshots |-> snapshots, files |-> files]

\* main started again on the inputs of the run that has ended
Rerun ==
    /\ Ended
    /\ first_run = <<>>
    /\ first_run' = <<Outcome>>
    /\ inventories' = OpeningInventory
    /\ trade_q' = EventsTaken("trade", 1) \o trade_q
    /\ action_q' = EventsTaken("action", 1) \o action_q
    /\ sc_i' = SnapshotCollector(build_needed_snapshot_map(div_df_year)).i
    /\ snapshots' = SnapshotCollector(build_needed_snapshot_map(div_df_year)).snapshots
    /\ realized_pnl_records' = <<>>
    /\ pc' = "loop"
    /\ tr' = NoTrade
    /\ remaining_qty' = 0
    /\ err' = NoErr
    /\ ret' = <<>>
    /\ log' = <<>>
    /\ dividend_ledger_df' = <<>>
    /\ files' = EmptyDict
    /\ UNCHANGED <<sc_dates, div_df_year, trades_df, actions_df>>

InitRerun == InitFifo \/ InitMerge \/ InitSnapTicks \/ InitDividends

NextRerun == Next \/ Rerun

SpecRerun == InitRerun /\ [][NextRerun]_vars

SellDone == LastIsTrade("SELL") /\ pc \notin {"sell", "raised"}

\* The number of lots from the head of q that a SELL of c shares touches
LotsTouched(q, c) ==
    IF c <= 0 THEN 0
    ELSE CHOOSE n \in 1..Len(q) :
            /\ SumQty(SubSeq(q, 1, n)) >= c
            /\ \A m \in 1..(n - 1) : SumQty(SubSeq(q, 1, m)) < c

\* C18: a SELL that succeeded has emitted exactly one disposal record per lot
\* it touched, n records when it crossed n lots, and the j-th record carries
\* the date and price of the SELL and the acquisition date and unit cost of
\* the j-th lot of the queue as the SELL found it.
C18_RecordPerLot ==
    SellDone =>
        /\ Len(SellRecords) = LotsTouched(QueueBefore, LastEvent.event.qty)
        /\ \A j \in DOMAIN SellRecords :
              /\ SellRecords[j].transaction_date = LastEvent.event.transaction_date
              /\ SellRecords[j].sell_price = LastEvent.event.price
              /\ SellRecords[j].stock_symbol = LastSymbol
              /\ SellRecords[j].buy_date = QueueBefore[j].date
              /\ SellRecords[j].buy_price = QueueBefore[j].price

\* A SELL has crossed an opening lot and a lot bought later at another price:
\* two records, two acquisition dates, another sell price
C18_Witness ==
    /\ SellDone
    /\ Len(SellRecords) = 2
    /\ SellRecords[1].buy_date # SellRecords[2].buy_date
    /\ SellRecords[1].buy_price # SellRecords[2].buy_price
    /\ SellRecords[2].buy_price # SellRecords[2].sell_price
    /\ SellRecords[2].buy_date = SellRecords[2].transaction_date
    /\ SellRecords[1].buy_date # SellRecords[1].transaction_date

\* C19: an iteration of the SELL loop that consumes only part of the lot at
\* the head puts the remainder, lot quantity minus consumed quantity, back at
\* the head with the lot's date and unit cost, ahead of every other lot; and
\* every iteration matches the lot at the head, so the next SELL of the
\* symbol starts with that remainder.
C19_RemainderAtHead ==
    [][(pc = "sell" /\ inventories[strip(tr.stock_symbol)] # <<>>) =>
          LET symbol == strip(tr.stock_symbol)
              q      == inventories[symbol]
              rec    == realized_pnl_records'[Len(realized_pnl_records')]
          IN  /\ Len(realized_pnl_records') = Len(realized_pnl_records) + 1
              /\ rec.buy_date = q[1].date
              /\ rec.buy_price = q[1].price
              /\ q[1].qty > remaining_qty =>
                    /\ rec.sell_qty = remaining_qty
                    /\ inventories'[symbol]
                          = <<Lot(q[1].qty - remaining_qty, q[1].price, q[1].date)>> \o Tail(q)
                    /\ pc' = "loop"]_vars

\* Two SELLs in a row: the first left part of the head lot ahead of another
\* lot, the second was matched against that remainder
C19_Witness ==
    /\ SellDone
    /\ Len(log) >= 2
    /\ log[Len(log) - 1].kind = "trade"
    /\ upper(log[Len(log) - 1].event.side) = "SELL"
    /\ strip(log[Len(log) - 1].event.stock_symbol) = LastSymbol
    /\ LET before == DictGet(log[Len(log) - 1].inventories, LastSymbol, <<>>)
       IN  /\ Len(before) = 2
           /\ Len(QueueBefore) = 2
           /\ QueueBefore[1].qty = before[1].qty - log[Len(log) - 1].event.qty
           /\ QueueBefore[1].price = before[1].price
           /\ QueueBefore[1].price # QueueBefore[2].price
           /\ QueueBefore[2] = before[2]
    /\ SellRecords # <<>>
    /\ SellRecords[1].buy_price = QueueBefore[1].price

\* g is a whole number at most one half away from x (exact arithmetic on the
\* significands, both scaled to one exponent below the smaller of the two)
WholeNearest(g, x) ==
    IF FIsZero(x) THEN FIsZero(g)
    ELSE LET E    == Min(-1, Min(x.e, IF FIsZero(g) THEN x.e ELSE g.e) - 1)
             X    == BNShl(x.m, x.e - E)
             G    == IF FIsZero(g) THEN <<>> ELSE BNShl(g.m, g.e - E)
             half == BNShl(<<1>>, -1 - E)
             d    == IF BNCmp(X, G) >= 0 THEN BNSub(X, G) ELSE BNSub(G, X)
         IN  /\ FIsZero(g) \/ g.neg = x.neg
             /\ BNLowBits(G, -E) = <<>>
             /\ BNCmp(d, half) <= 0

\* C20: every disposal record's realized gain is consumed quantity times
\* (sell price minus the unit cost of the matched lot as the SELL found it,
\* after any earlier split), rounded to the nearest whole number, the same
\* rounding for every record.
C20_RealizedGain ==
    /\ \A j \in DOMAIN realized_pnl_records :
          LET r == realized_pnl_records[j]
              x == FMulInt(r.sell_qty, FSub(r.sell_price, r.buy_price))
          IN  /\ r.realized_pnl = FRound0(x)
              /\ WholeNearest(r.realized_pnl, x)
    /\ LastIsTrade("SELL") =>
          \A j \in DOMAIN SellRecords : SellRecords[j].buy_price = QueueBefore[j].price

\* One share bought at 0.9 and split 1->2 has been sold at 10: the gain is
\* 10 - 0.45 = 9.55, recorded as 10
C20_Witness ==
    /\ SellDone
    /\ Len(log) = 2
    /\ log[1].kind = "action"
    /\ log[1].inventories[LastSymbol] = <<Lot(1, P09, Ts(0, 0))>>
    /\ Len(SellRecords) = 1
    /\ SellRecords[1].sell_qty = 1
    /\ SellRecords[1].sell_price = P10
    /\ SellRecords[1].buy_price = FDivInt(P09, 2)
    /\ SellRecords[1].realized_pnl = FFromInt(10)
    /\ SellRecords[1].realized_pnl # FMulInt(1, FSub(P10, FDivInt(P09, 2)))

\* C21: the step that ends the event stream captures every requested date
\* not yet captured against the inventory as the run leaves it and touches
\* no entry already written; once the call has returned the snapshot map has
\* an entry for every requested date and for no other date, also when there
\* was no event at all.
C21_FinalizeCapturesAll ==
    /\ [](pc \in {"returned", "inventory_saved", "pnl_saved", "finished"} =>
             /\ sc_i = Len(sc_dates)
             /\ DOMAIN snapshots = RequestedDates
             /\ ret[3] = snapshots)
    /\ [][(pc = "loop" /\ pc' = "returned") =>
             /\ inventories' = inventories
             /\ \A j \in 1..Len(sc_dates) :
                   IF j > sc_i
                   THEN snapshots'[sc_dates[j]] = snapshot_inventory(inventories)
                   ELSE snapshots'[sc_dates[j]] = snapshots[sc_dates[j]]]_vars

\* A run has returned with one date captured during the events and two left
\* to finalize, which hold the final inventory
C21_Witness ==
    /\ pc = "returned"
    /\ log # <<>>
    /\ Len(sc_dates) = 3
    /\ LastEvent.sc_i = 1
    /\ snapshots[sc_dates[1]] # snapshots[sc_dates[2]]
    /\ snapshots[sc_dates[2]] = snapshot_inventory(inventories)
    /\ snapshots[sc_dates[3]] = snapshot_inventory(inventories)
    /\ snapshot_inventory(inventories) # EmptyDict

\* The sum of the quantities of the lots of q, from the tail
RECURSIVE TotalQty(_)
TotalQty(q) == IF q = <<>> THEN 0 ELSE TotalQty(SubSeq(q, 1, Len(q) - 1)) + q[Len(q)].qty

\* C22: a snapshot written by a step maps each symbol to the sum of the
\* quantities of the lots in its queue at that moment, and holds a symbol if
\* and only if that sum is not zero: a symbol with an empty queue or a zero
\* total is left out.
C22_SnapshotTotals ==
    [][\A j \in (sc_i + 1)..sc_i' :
          LET snap == snapshots'[sc_dates[j]]
          IN  /\ \A s \in DOMAIN snap :
                    s \in DOMAIN inventories /\ snap[s] = TotalQty(inventories[s])
              /\ \A s \in DOMAIN inventories :
                    s \in DOMAIN snap <=> TotalQty(inventories[s]) # 0]_vars

\* The last date captured holds B, of two lots, and not A, whose two lots
\* cancel out
C22_Witness ==
    /\ pc = "test"
    /\ sc_i >= 1
    /\ Len(inventories["A"]) = 2
    /\ TotalQty(inventories["A"]) = 0
    /\ Len(inventories["B"]) = 1
    /\ DOMAIN snapshots[sc_dates[sc_i]] = {"B"}
    /\ snapshots[sc_dates[sc_i]]["B"] = inventories["B"][1].qty

\* The number of rows of df equal to r
Count(df, r) == Cardinality({i \in DOMAIN df : df[i] = r})

\* The rows loaded that have no missing field, and of the actions those of
\* the year of the run
CompleteTrades == {i \in DOMAIN trades_df : trades_df[i].stock_symbol # NA}

InYearActions ==
    {i \in DOMAIN actions_df :
        /\ actions_df[i].symbol # NA
        /\ actions_df[i].action_date >= year * DaysPerYear * TicksPerDay
        /\ actions_df[i].action_date < (year + 1) * DaysPerYear * TicksPerDay}

Completed == pc \in {"returned", "inventory_saved", "pnl_saved", "finished"}

\* C23: the events dispatched, trades and actions together, are in
\* nondecreasing order of timestamp, hence of calendar date; and once the run
\* has completed every complete trade row loaded, of whatever year, and every
\* complete action row of the year has been dispatched exactly once and
\* nothing else has.
C23_EarlierDateWins ==
    /\ \A i, j \in DOMAIN log :
          i < j => /\ EventDate(log[i]) <= EventDate(log[j])
                   /\ normalize(EventDate(log[i])) <= normalize(EventDate(log[j]))
    /\ Completed =>
          /\ \A h \in {log[i] : i \in DOMAIN log} :
                IF h.kind = "trade"
                THEN Count(EventsTaken("trade", 1), h.event) =
                         Cardinality({i \in CompleteTrades : trades_df[i] = h.event})
                ELSE Count(EventsTaken("action", 1), h.event) =
                         Cardinality({i \in InYearActions : actions_df[i] = h.event})
          /\ \A i \in CompleteTrades : Count(EventsTaken("trade", 1), trades_df[i]) >= 1
          /\ \A i \in InYearActions : Count(EventsTaken("action", 1), actions_df[i]) >= 1

\* A completed run whose rows were loaded out of order: the later BUY first,
\* an action of the next year before the one of the year
C23_Witness ==
    /\ pc = "finished"
    /\ trades_df = <<Trade(Ts(2, 0), "A", "BUY", 1, P10), Trade(Ts(1, 0), "A", "SELL", 1, P10)>>
    /\ actions_df = <<Action(NextYear, "A", "SPLIT", 1, 2), Action(Ts(2, 0), "A", "SPLIT", 1, 2)>>
    /\ Len(log) = 3
    /\ log[1].event = trades_df[2]
    /\ log[2].event = trades_df[1]
    /\ log[3].event = actions_df[2]

\* out holds the rows of in, and rows of the same calendar date in the order
\* they have in in
InputOrderOnTies(out, in, by) ==
    /\ Len(out) = Len(in)
    /\ \E p \in Orderings(Len(in)) :
          /\ \A i \in DOMAIN out : out[i] = in[p[i]]
          /\ \A i, j \in DOMAIN out :
                (i < j /\ normalize(out[i][by]) = normalize(out[j][by])) => p[i] < p[j]

\* C24: once the first event has been dispatched, the trades in the order of
\* their dispatch (those taken, then those pending) are the complete trade
\* rows with rows of the same date in the order they were loaded in, and
\* likewise the actions of the year.
C24_StableOnTies ==
    log # <<>> =>
        /\ InputOrderOnTies(EventsTaken("trade", 1) \o trade_q,
                            [k \in 1..Cardinality(CompleteTrades) |->
                                trades_df[CHOOSE i \in CompleteTrades :
                                    Cardinality({x \in CompleteTrades : x <= i}) = k]],
                            "transaction_date")
        /\ InputOrderOnTies(EventsTaken("action", 1) \o action_q,
                            [k \in 1..Cardinality(InYearActions) |->
                                actions_df[CHOOSE i \in InYearActions :
                                    Cardinality({x \in InYearActions : x <= i}) = k]],
                            "action_date")

\* The events of the run dated on or before d, in the order of their dispatch
EventsUpTo(d) == SelectSeq(log, LAMBDA h : normalize(EventDate(h)) <= d)

\* What the events evs make of the symbol's opening total: a BUY adds its
\* quantity, a SELL takes it off, a SPLIT multiplies by ratio_to / ratio_from
RECURSIVE Holdings(_, _)
Holdings(s, evs) ==
    IF evs = <<>> THEN TotalQty(DictGet(OpeningInventory, s, <<>>))
    ELSE LET h    == evs[Len(evs)]
             prev == Holdings(s, SubSeq(evs, 1, Len(evs) - 1))
         IN  IF h.kind = "trade"
             THEN IF strip(h.event.stock_symbol) # s THEN prev
                  ELSE IF upper(h.event.side) = "BUY" THEN prev + h.event.qty
                  ELSE prev - h.event.qty
             ELSE IF strip(h.event.symbol) # s THEN prev
                  ELSE prev * (h.event.ratio_to \div h.event.ratio_from)

\* C25: once the run has completed, the snapshot of every requested date d
\* holds exactly the symbols whose end-of-day-d total is not zero, with that
\* total: the opening total changed by the events dated on or before d, in the
\* order of their dispatch, and by none dated after d.
C25_EndOfDayHoldings ==
    Completed =>
        \A d \in RequestedDates :
            /\ d \in DOMAIN snapshots
            /\ \A s \in DOMAIN snapshots[d] : snapshots[d][s] = Holdings(s, EventsUpTo(d))
            /\ \A s \in DOMAIN inventories \cup DOMAIN OpeningInventory :
                  s \in DOMAIN snapshots[d] <=> Holdings(s, EventsUpTo(d)) # 0

\* A requested date d with an event in the course of day d, which its
\* snapshot holds, and an event after it, which it does not hold
C25_Witness ==
    /\ pc = "finished"
    /\ \E d \in RequestedDates :
          /\ \E a, b \in DOMAIN log :
                /\ EventDate(log[a]) > d
                /\ normalize(EventDate(log[a])) = d
                /\ normalize(EventDate(log[b])) > d
          /\ snapshots[d] # snapshot_inventory(OpeningInventory)
          /\ snapshots[d] # snapshot_inventory(inventories)

\* The symbol's total quantity in inv, 0 if inv does not hold it
Total(inv, s) == TotalQty(DictGet(inv, s, <<>>))

\* Every symbol but s has the same lots in inv1 and inv2
OthersUnchanged(inv1, inv2, s) ==
    \A x \in (DOMAIN inv1 \cup DOMAIN inv2) \ {s} :
        DictGet(inv1, x, <<>>) = DictGet(inv2, x, <<>>)

\* The shares of s traded on the given side by the first n events
RECURSIVE Traded(_, _, _)
Traded(s, side, n) ==
    IF n = 0 THEN 0
    ELSE Traded(s, side, n - 1) +
         (IF /\ log[n].kind = "trade"
             /\ strip(log[n].event.stock_symbol) = s
             /\ upper(log[n].event.side) = side
          THEN log[n].event.qty ELSE 0)

\* C26: the step that takes a BUY of q raises the symbol's total by q; the
\* step that takes a SPLIT with valid ratio multiplies the symbol's total by
\* k = ratio_to / ratio_from; a SELL of q that has succeeded has lowered the
\* symbol's total by q; each leaves the lots of every other symbol as they
\* were; and a completed run without actions ends with each symbol's total at
\* opening total plus bought minus sold.
C26_ShareConservation ==
    /\ [](SellDone =>
             /\ Total(inventories, LastSymbol) =
                    Total(LastEvent.inventories, LastSymbol) - LastEvent.event.qty
             /\ OthersUnchanged(LastEvent.inventories, inventories, LastSymbol))
    /\ []((Completed /\ \A n \in DOMAIN log : log[n].kind = "trade") =>
             \A s \in DOMAIN inventories \cup DOMAIN OpeningInventory :
                 Total(inventories, s) =
                     Total(OpeningInventory, s) + Traded(s, "BUY", Len(log))
                                                - Traded(s, "SELL", Len(log)))
    /\ [][Len(log') = Len(log) + 1 =>
             LET h == log'[Len(log')]
             IN  /\ (h.kind = "trade" /\ upper(h.event.side) = "BUY") =>
                        LET s == strip(h.event.stock_symbol)
                        IN  /\ Total(inventories', s) = Total(inventories, s) + h.event.qty
                            /\ OthersUnchanged(inventories, inventories', s)
                 /\ (h.kind = "action" /\ err' = NoErr) =>
                        LET s == strip(h.event.symbol)
                            k == h.event.ratio_to \div h.event.ratio_from
                        IN  /\ Total(inventories', s) = Total(inventories, s) * k
                            /\ OthersUnchanged(inventories, inventories', s)]_vars

\* A completed run that took a BUY, a SELL and a SPLIT 1 -> 2 of A, in that
\* order, while B held a lot
C26_Witness ==
    /\ pc = "finished"
    /\ Len(log) = 3
    /\ LastEvent.kind = "action"
    /\ LastEvent.event.ratio_to = 2 * LastEvent.event.ratio_from
    /\ Traded("A", "BUY", 2) = 1
    /\ Traded("A", "SELL", 2) = 1
    /\ Total(LastEvent.inventories, "A") = 1
    /\ Total(inventories, "A") = 2
    /\ Total(inventories, "B") = 2

\* The sum of the quantities of the disposal records recs
RECURSIVE SoldQty(_)
SoldQty(recs) == IF recs = <<>> THEN 0 ELSE recs[1].sell_qty + SoldQty(Tail(recs))

\* C27: the disposal records of a SELL that has succeeded have quantities
\* that sum to the SELL's quantity, each of them at least 1 when the lots of
\* the queue it found had quantities above zero; and a SELL of quantity 0
\* that has been taken has emitted no record and has left every queue with
\* the lots it had.
C27_DisposalQuantities ==
    /\ SellDone =>
          /\ SoldQty(SellRecords) = LastEvent.event.qty
          /\ (\A j \in DOMAIN QueueBefore : QueueBefore[j].qty > 0) =>
                 \A j \in DOMAIN SellRecords : SellRecords[j].sell_qty >= 1
    /\ (LastIsTrade("SELL") /\ LastEvent.event.qty = 0) =>
          /\ pc \notin {"sell", "raised"}
          /\ SellRecords = <<>>
          /\ \A s \in DOMAIN inventories \cup DOMAIN LastEvent.inventories :
                DictGet(inventories, s, <<>>) = DictGet(LastEvent.inventories, s, <<>>)

\* A SELL of 0 that left the two lots and the records as they were, then a
\* SELL of 3 that emitted a record of 2 and a record of 1
C27_Witness ==
    /\ pc = "loop"
    /\ Len(log) = 2
    /\ log[1].kind = "trade" /\ log[1].event.side = "SELL" /\ log[1].event.qty = 0
    /\ log[2].inventories = log[1].inventories
    /\ log[2].nrec = 0
    /\ LastIsTrade("SELL") /\ LastEvent.event.qty = 3
    /\ Len(SellRecords) = 2
    /\ SellRecords[1].sell_qty = 2
    /\ SellRecords[2].sell_qty = 1

\* The lots of q are in nondecreasing order of key(date) from head to tail
DateOrdered(q, calendar) ==
    \A j \in 1..(Len(q) - 1) :
        IF calendar THEN normalize(q[j].date) <= normalize(q[j + 1].date)
        ELSE q[j].date <= q[j + 1].date

\* The trades of the run in the order of their dispatch, taken and pending
AllTrades == EventsTaken("trade", 1) \o trade_q

\* Every opening queue is in ascending order of acquisition date and no
\* opening lot is dated after the first trade
OpeningDatesInOrder(calendar) ==
    \A s \in DOMAIN OpeningInventory :
        /\ DateOrdered(OpeningInventory[s], calendar)
        /\ AllTrades # <<>> =>
              \A j \in DOMAIN OpeningInventory[s] :
                  IF calendar
                  THEN normalize(OpeningInventory[s][j].date) <=
                           normalize(AllTrades[1].transaction_date)
                  ELSE OpeningInventory[s][j].date <= AllTrades[1].transaction_date

\* C28: when the opening queues are in ascending order of acquisition date
\* and no opening lot is dated after the first trade, every queue is in
\* nondecreasing order of acquisition date from head to tail in every state of
\* the run, by timestamp and by calendar date alike.
C28_QueuesDateOrdered ==
    /\ OpeningDatesInOrder(FALSE) =>
          \A s \in DOMAIN inventories : DateOrdered(inventories[s], FALSE)
    /\ OpeningDatesInOrder(TRUE) =>
          \A s \in DOMAIN inventories : DateOrdered(inventories[s], TRUE)

\* Two opening lots of different dates, a SELL that took part of the head and
\* put the rest back, a SPLIT and a later BUY: three lots, oldest first
C28_Witness ==
    /\ pc = "finished"
    /\ OpeningDatesInOrder(FALSE)
    /\ Len(log) = 3
    /\ \E a, b, c \in DOMAIN log :
          /\ log[a].kind = "trade" /\ log[a].event.side = "SELL"
          /\ log[b].kind = "trade" /\ log[b].event.side = "BUY"
          /\ log[c].kind = "action"
    /\ Len(realized_pnl_records) = 1
    /\ Len(DictGet(OpeningInventory, "A", <<>>)) = 2
    /\ Len(DictGet(inventories, "A", <<>>)) = 3
    /\ inventories["A"][1].date < inventories["A"][2].date
    /\ inventories["A"][2].date < inventories["A"][3].date
    /\ inventories["A"][1].date = OpeningInventory["A"][1].date

\* C29: the run terminates. Each step that dispatches an event removes
\* exactly one element, the head, from exactly one of the two queues; each
\* iteration of the SELL loop leaves the symbol's queue one lot shorter or
\* ends the SELL (matched in full, or the fatal error); and every run reaches
\* either the return of apply_trades_fifo with both queues empty and every
\* requested date captured, or a fatal error.
C29_Terminates ==
    /\ <>(\/ pc = "raised" /\ err # NoErr
          \/ /\ pc = "returned"
             /\ trade_q = <<>> /\ action_q = <<>>
             /\ sc_i = Len(sc_dates)
             /\ DOMAIN snapshots = RequestedDates)
    /\ [][/\ pc = "dispatch" =>
                \/ trade_q # <<>> /\ trade_q' = Tail(trade_q) /\ action_q' = action_q
                \/ action_q # <<>> /\ action_q' = Tail(action_q) /\ trade_q' = trade_q
          /\ pc = "sell" =>
                /\ trade_q' = trade_q /\ action_q' = action_q
                /\ \/ pc' # "sell"
                   \/ Len(inventories'[strip(tr.stock_symbol)]) =
                          Len(inventories[strip(tr.stock_symbol)]) - 1
          /\ pc = "loop" => trade_q' = trade_q /\ action_q' = action_q]_vars

\* A run that has returned after two SELLs, the second of which went through
\* two lots
C29_Witness ==
    /\ pc = "returned"
    /\ trade_q = <<>> /\ action_q = <<>>
    /\ Len(log) = 2
    /\ log[1].kind = "trade" /\ log[1].event.side = "SELL"
    /\ LastIsTrade("SELL")
    /\ Len(QueueBefore) = 2
    /\ Len(SellRecords) = 2

====
